---------------------------- MODULE Spec2Model ----------------------------
(***************************************************************************)
(* A model of nostr-double-ratchet: the Double Ratchet session, the invite *)
(* handshake (Invite, InviteList, inviteUtils), the InviteList device      *)
(* registry, the DeviceRecord, the UserRecordStore and the relay of the    *)
(* tests (ControllableRelay).                                              *)
(*                                                                         *)
(* Cryptography is symbolic.  A key pair is a natural number (0 = absent); *)
(* the public half carries the same number and possession of the private   *)
(* half is modelled by who holds the number in its state.  A KDF output is *)
(* the tuple of its inputs, so two outputs agree exactly when their inputs *)
(* agree.  A ciphertext is the pair <<key, plaintext>> and opens only with *)
(* the key it was made with.                                               *)
(***************************************************************************)
EXTENDS Integers, Sequences, FiniteSets, Bags, TLC

VARIABLES
    \* ---- Double Ratchet sessions (SpecSession)
    sessions,     \* side -> Session object (state, subscriptions, name)
    net,          \* events produced by send, with the side they are meant for
    nextKeyId,    \* source of fresh key pairs (generateSecretKey)
    log,          \* side -> payloads seen by the onEvent handlers, in order
    deliv,        \* side -> payloads of the genuine events in delivery order
    received,     \* side -> genuine events already passed to decryptEvent
    failed,       \* side -> a decryptEvent call on a known pubkey has failed
    lastCall,     \* the most recent decryptEvent call, its result and frame
    \* ---- Invite handshake (SpecInvite)
    ivKind,       \* "invite": Invite.accept/listen, "list": InviteList's
    invite,       \* the inviter's Invite object
    ilist,        \* the owner's InviteList
    listening,    \* listen has opened its subscription
    envelopes,    \* invite-response events published so far
    accepts,      \* what accept returned, and what was forged, per envelope
    deliveries,   \* the calls of listen's callback, in order, with outcome
    queue,        \* callbacks suspended at their await, oldest first
    calls,        \* the onSession invocations, in order
    thrown,       \* the calls of accept and listen that threw
    \* ---- InviteList replicas (SpecList)
    lists,        \* the InviteList each replica of one owner holds
    gone,         \* per replica, the ids removeDevice has moved to removed
    built,        \* per replica, whether its list is one the replica built
                  \* itself: by create, addDevice, removeDevice, mainDeviceId
    after,        \* per replica, what was tried on it after such a removal
    ops,          \* operations applied so far
    \* ---- One DeviceRecord (SpecRecord)
    record,       \* the DeviceRecord
    rlast,        \* the most recent rotateSession call: the record before it
                  \* and the session passed
    rotated,      \* the sessions passed to rotateSession so far, in order
    \* ---- UserRecordStore over a storage adapter (SpecStore)
    records,      \* the store's Map of public key -> UserRecord
    storage,      \* the adapter's content: storage key -> stored value
    unsaved,      \* public keys whose record changed since it was last saved
    savedKeys,    \* public keys saved and not deleted from storage since
    slast,        \* the most recent save or load: its key and what it found
    sops,         \* store operations applied so far
    \* ---- Sessions rebuilt from their serialized state (SpecOffline)
    offline,      \* side -> the session rebuilt from the side's stored state
    twinlog,      \* side -> what the session and the rebuilt one returned,
                  \* call by call, since the rebuilding
    \* ---- ControllableRelay (SpecRelay)
    relay,        \* the relay: events, subscribers, subscriptionCounter
    unsubs,       \* the functions subscribe has returned, in order: the
                  \* subscription id each holds and whether it was called
    invocations,  \* the calls of subscribers' callbacks, in order
    pubs,         \* the events published since the relay was last empty
    rcall,        \* the most recent call on the relay, what it found and
                  \* what it returned
    rcalls,       \* deliveries, unsubscribe calls and clears so far
    \* ---- Invite.fromUser (SpecFromUser)
    seenIds,      \* the seenIds of the subscription's callback
    onInviteCalls,\* the calls of onInvite, in order
    fuLast        \* the events handed to the callback, in order, each with
                  \* what the callback did

sessionVars == <<sessions, net, log, deliv, received, failed, lastCall>>

inviteVars ==
    <<ivKind, invite, ilist, listening, envelopes, accepts, deliveries,
      queue, calls, thrown>>

listVars == <<lists, gone, built, after, ops>>

recordVars == <<record, rlast, rotated>>

storeVars == <<records, storage, unsaved, savedKeys, slast, sops>>

offlineVars == <<offline, twinlog>>

relayVars == <<relay, unsubs, invocations, pubs, rcall, rcalls>>

fromUserVars == <<seenIds, onInviteCalls, fuLast>>

\* the variables of the relay and of fromUser, which no other
\* specification touches
busVars == <<relayVars, fromUserVars>>

vars ==
    <<sessionVars, inviteVars, listVars, recordVars, storeVars, offlineVars,
      busVars, nextKeyId>>

----------------------------------------------------------------------------
(* Bounds of the model *)

\* events sent in one run, by both sides together
MaxSend == 4

----------------------------------------------------------------------------
(* Symbolic primitives (spec 4.1) *)

NoKey == <<>>

\* ECDH conversation key: DH(privA, pubB) = DH(privB, pubA)
DH(priv, pub) == {priv, pub}

\* AEAD under a 32-byte key
Encrypt(plaintext, key) == <<key, plaintext>>
CanDecrypt(ciphertext, key) == ciphertext[1] = key
Decrypt(ciphertext, key) == ciphertext[2]

\* Root ratchet step: rootKey, chainKey = kdf(rootKey, DH output).  A root
\* key is <<sharedSecret, the DH outputs mixed in so far>>; the chain key
\* that comes out with it is <<that root key, 0>>.
KdfRoot(rootKey, dh) ==
    LET r == <<rootKey[1], Append(rootKey[2], dh)>>
    IN  [rootKey |-> r, chainKey |-> <<r, 0>>]

\* Chain step: chainKey, messageKey = kdf2(chainKey, const).  A chain key
\* is <<origin, number of steps taken>>.
KdfChain(chainKey) ==
    [chainKey   |-> <<chainKey[1], chainKey[2] + 1>>,
     messageKey |-> <<chainKey[1], chainKey[2], 1>>]

\* the canonical skipped-key bound (spec 4.2, 9)
MAX_SKIP == 1000

----------------------------------------------------------------------------
(* Session (spec 3 "SessionState", 4.2) *)

\* skippedKeys is kept in insertion order: a sequence of entries
\* [pub |-> peer ratchet public, messageKeys |-> (message number -> key)].
SkippedIndex(skippedKeys, pub) ==
    LET hits == {i \in 1..Len(skippedKeys) : skippedKeys[i].pub = pub}
    IN  IF hits = {} THEN 0 ELSE CHOOSE i \in hits : TRUE

HasSkipped(skippedKeys, pub, n) ==
    LET i == SkippedIndex(skippedKeys, pub)
    IN  i # 0 /\ n \in DOMAIN skippedKeys[i].messageKeys

SkippedKey(skippedKeys, pub, n) ==
    skippedKeys[SkippedIndex(skippedKeys, pub)].messageKeys[n]

\* store one message key under the peer ratchet public it belongs to
PutSkipped(skippedKeys, pub, n, key) ==
    LET i == SkippedIndex(skippedKeys, pub)
    IN  IF i = 0
        THEN Append(skippedKeys, [pub |-> pub, messageKeys |-> (n :> key)])
        ELSE [skippedKeys EXCEPT ![i].messageKeys = (n :> key) @@ @]

\* evict one message key; an entry left without keys is dropped
EvictSkipped(skippedKeys, pub, n) ==
    LET i    == SkippedIndex(skippedKeys, pub)
        rest == [m \in (DOMAIN skippedKeys[i].messageKeys) \ {n}
                    |-> skippedKeys[i].messageKeys[m]]
    IN  IF DOMAIN rest = {}
        THEN SubSeq(skippedKeys, 1, i - 1)
                \o SubSeq(skippedKeys, i + 1, Len(skippedKeys))
        ELSE [skippedKeys EXCEPT ![i].messageKeys = rest]

\* the keys of skippedKeys
SkippedPubs(skippedKeys) == {skippedKeys[i].pub : i \in 1..Len(skippedKeys)}

\* the subscriptions a session holds: one per known peer ratchet public
OpenSubs(theirCurrent, theirNext) == {theirCurrent, theirNext} \ {0}

\* Session.init throws when the peer's public key is absent (0): the DH it
\* mixes into the first root key cannot be computed
SessionInitThrows(theirPub) == theirPub = 0

\* Session.init(subscribe, theirIdentityPub, ourIdentityPriv, isInitiator,
\*              sharedSecret, name).  fresh is the newly generated pair.
\* The first root key mixes sharedSecret with DH(ourPriv, theirPub); the
\* chain that comes out with it is the initiator's first sending chain and
\* the responder's first receiving chain.
SessionInit(theirPub, ourPriv, isInitiator, sharedSecret, name, fresh) ==
    LET k == KdfRoot(<<sharedSecret, <<>>>>, DH(ourPriv, theirPub))
    IN  [name |-> name,
         rootKey |-> k.rootKey,
         sendingChainKey   |-> IF isInitiator THEN k.chainKey ELSE NoKey,
         receivingChainKey |-> IF isInitiator THEN NoKey ELSE k.chainKey,
         sendingChainMessageNumber |-> 0,
         receivingChainMessageNumber |-> 0,
         previousSendingChainMessageCount |-> 0,
         ourCurrentRatchetKey |-> IF isInitiator THEN ourPriv ELSE 0,
         ourNextRatchetKey    |-> IF isInitiator THEN fresh ELSE ourPriv,
         theirCurrentRatchetPublic |-> IF isInitiator THEN 0 ELSE theirPub,
         theirNextRatchetPublic    |-> IF isInitiator THEN theirPub ELSE 0,
         skippedKeys |-> <<>>,
         subs |-> {theirPub}]

\* Send step 1: the DH ratchet step taken when there is no sending chain.
\* The peer derives the matching receiving chain from its current ratchet
\* private key and the pubkey of our event (Receive, DH ratchet step), so
\* the step pairs our next key with the peer's current ratchet public.
SendRatchet(s, fresh) ==
    LET r == KdfRoot(s.rootKey,
                     DH(s.ourNextRatchetKey, s.theirCurrentRatchetPublic))
    IN  [s EXCEPT !.rootKey = r.rootKey,
                  !.sendingChainKey = r.chainKey,
                  !.ourCurrentRatchetKey = s.ourNextRatchetKey,
                  !.ourNextRatchetKey = fresh,
                  !.previousSendingChainMessageCount =
                        s.sendingChainMessageNumber,
                  !.sendingChainMessageNumber = 0]

\* send is refused while there is neither a sending chain nor a known next
\* ratchet public of the peer to ratchet towards
CanSend(s) == s.sendingChainKey # NoKey \/ s.theirNextRatchetPublic # 0

\* send(plaintext) -> {event, state'}: steps 1, 2, 4 and 5 of Send
Send(s, text, fresh) ==
    LET s1 == IF s.sendingChainKey = NoKey THEN SendRatchet(s, fresh) ELSE s
        k  == KdfChain(s1.sendingChainKey)
    IN  [event |-> [pubkey |-> s1.ourCurrentRatchetKey,
                    number |-> s1.sendingChainMessageNumber,
                    previousChainLength |->
                        s1.previousSendingChainMessageCount,
                    nextPublicKey |-> s1.ourNextRatchetKey,
                    content |-> Encrypt(text, k.messageKey)],
         state |-> [s1 EXCEPT !.sendingChainKey = k.chainKey,
                              !.sendingChainMessageNumber = @ + 1]]

\* mutant of SkipMessageKeys: the chain is advanced past the skipped
\* messages but their keys are not kept
SkipMessageKeys_NoCache(s, until, pub) ==
    IF s.receivingChainKey = NoKey \/ s.receivingChainMessageNumber >= until
    THEN s
    ELSE [s EXCEPT !.receivingChainKey =
                       <<@[1], @[2] + (until - s.receivingChainMessageNumber)>>,
                   !.receivingChainMessageNumber = until]

\* derive and cache the keys of the messages receivingChainMessageNumber ..
\* until-1 of the current receiving chain under skippedKeys[pub]
RECURSIVE SkipMessageKeys(_, _, _)
SkipMessageKeys(s, until, pub) ==
    IF s.receivingChainKey = NoKey \/ s.receivingChainMessageNumber >= until
    THEN s
    ELSE LET k == KdfChain(s.receivingChainKey)
         IN  SkipMessageKeys(
                [s EXCEPT !.receivingChainKey = k.chainKey,
                          !.receivingChainMessageNumber = @ + 1,
                          !.skippedKeys = PutSkipped(@, pub,
                              s.receivingChainMessageNumber, k.messageKey)],
                until, pub)

\* more keys to skip than the bound allows
TooManySkipped(s, until) ==
    until > s.receivingChainMessageNumber + MAX_SKIP

Null(s) == [ok |-> FALSE, inner |-> <<>>, state |-> s]

\* mutant of DecryptCurrentChain: the keys skipped and the ratchet step
\* taken on the way stay in the state when the payload does not open
DecryptCurrentChain_NoRollback(s0, s, e) ==
    IF \/ s.receivingChainKey = NoKey
       \/ e.number < s.receivingChainMessageNumber
       \/ TooManySkipped(s, e.number)
    THEN Null(s)
    ELSE LET s1 == SkipMessageKeys(s, e.number, e.pubkey)
             k  == KdfChain(s1.receivingChainKey)
         IN  IF ~CanDecrypt(e.content, k.messageKey)
             THEN Null(s1)
             ELSE [ok |-> TRUE,
                   inner |-> Decrypt(e.content, k.messageKey),
                   state |-> [s1 EXCEPT
                       !.receivingChainKey = k.chainKey,
                       !.receivingChainMessageNumber = @ + 1,
                       !.theirNextRatchetPublic = e.nextPublicKey,
                       !.subs = OpenSubs(s1.theirCurrentRatchetPublic,
                                         e.nextPublicKey)]]

\* mutant of DecryptCurrentChain: the peer's next ratchet public is set to
\* the pubkey of the event
DecryptCurrentChain_SameNext(s0, s, e) ==
    IF \/ s.receivingChainKey = NoKey
       \/ e.number < s.receivingChainMessageNumber
       \/ TooManySkipped(s, e.number)
    THEN Null(s0)
    ELSE LET s1 == SkipMessageKeys(s, e.number, e.pubkey)
             k  == KdfChain(s1.receivingChainKey)
         IN  IF ~CanDecrypt(e.content, k.messageKey)
             THEN Null(s0)
             ELSE [ok |-> TRUE,
                   inner |-> Decrypt(e.content, k.messageKey),
                   state |-> [s1 EXCEPT
                       !.receivingChainKey = k.chainKey,
                       !.receivingChainMessageNumber = @ + 1,
                       !.theirNextRatchetPublic = e.pubkey,
                       !.subs = OpenSubs(s1.theirCurrentRatchetPublic,
                                         e.pubkey)]]

\* mutant of DecryptCurrentChain: the subscriptions held before the call
\* are kept
DecryptCurrentChain_KeepsOldSub(s0, s, e) ==
    IF \/ s.receivingChainKey = NoKey
       \/ e.number < s.receivingChainMessageNumber
       \/ TooManySkipped(s, e.number)
    THEN Null(s0)
    ELSE LET s1 == SkipMessageKeys(s, e.number, e.pubkey)
             k  == KdfChain(s1.receivingChainKey)
         IN  IF ~CanDecrypt(e.content, k.messageKey)
             THEN Null(s0)
             ELSE [ok |-> TRUE,
                   inner |-> Decrypt(e.content, k.messageKey),
                   state |-> [s1 EXCEPT
                       !.receivingChainKey = k.chainKey,
                       !.receivingChainMessageNumber = @ + 1,
                       !.theirNextRatchetPublic = e.nextPublicKey,
                       !.subs = s0.subs \cup {e.nextPublicKey}]]

\* Receive, pubkey = theirCurrentRatchetPublic: the current receiving chain
DecryptCurrentChain(s0, s, e) ==
    IF \/ s.receivingChainKey = NoKey
       \/ e.number < s.receivingChainMessageNumber
       \/ TooManySkipped(s, e.number)
    THEN Null(s0)
    ELSE LET s1 == SkipMessageKeys(s, e.number, e.pubkey)
             k  == KdfChain(s1.receivingChainKey)
         IN  IF ~CanDecrypt(e.content, k.messageKey)
             THEN Null(s0)
             ELSE [ok |-> TRUE,
                   inner |-> Decrypt(e.content, k.messageKey),
                   state |-> [s1 EXCEPT
                       !.receivingChainKey = k.chainKey,
                       !.receivingChainMessageNumber = @ + 1,
                       !.theirNextRatchetPublic = e.nextPublicKey,
                       !.subs = OpenSubs(s1.theirCurrentRatchetPublic,
                                         e.nextPublicKey)]]

\* mutant of RatchetStep: the sending counters are left as they were
RatchetStep_NoReset(s, e, fresh) ==
    LET s1 == SkipMessageKeys(s, e.previousChainLength,
                              s.theirCurrentRatchetPublic)
        r1 == KdfRoot(s.rootKey, DH(s.ourCurrentRatchetKey, e.pubkey))
        r2 == KdfRoot(r1.rootKey, DH(s.ourNextRatchetKey, e.pubkey))
    IN  [s1 EXCEPT !.theirCurrentRatchetPublic = e.pubkey,
                   !.theirNextRatchetPublic = e.nextPublicKey,
                   !.rootKey = r2.rootKey,
                   !.receivingChainKey = r1.chainKey,
                   !.receivingChainMessageNumber = 0,
                   !.sendingChainKey = r2.chainKey,
                   !.ourCurrentRatchetKey = s.ourNextRatchetKey,
                   !.ourNextRatchetKey = fresh,
                   !.subs = OpenSubs(e.pubkey, e.nextPublicKey)]

\* Receive, pubkey = theirNextRatchetPublic: the DH ratchet step
RatchetStep(s, e, fresh) ==
    LET s1 == SkipMessageKeys(s, e.previousChainLength,
                              s.theirCurrentRatchetPublic)
        r1 == KdfRoot(s.rootKey, DH(s.ourCurrentRatchetKey, e.pubkey))
        r2 == KdfRoot(r1.rootKey, DH(s.ourNextRatchetKey, e.pubkey))
    IN  [s1 EXCEPT !.theirCurrentRatchetPublic = e.pubkey,
                   !.theirNextRatchetPublic = e.nextPublicKey,
                   !.rootKey = r2.rootKey,
                   !.receivingChainKey = r1.chainKey,
                   !.receivingChainMessageNumber = 0,
                   !.sendingChainKey = r2.chainKey,
                   !.previousSendingChainMessageCount =
                        s.sendingChainMessageNumber,
                   !.sendingChainMessageNumber = 0,
                   !.ourCurrentRatchetKey = s.ourNextRatchetKey,
                   !.ourNextRatchetKey = fresh,
                   !.subs = OpenSubs(e.pubkey, e.nextPublicKey)]

\* mutant of DecryptSkipped: the stored key is left in skippedKeys
DecryptSkipped_NoEvict(s, e) ==
    LET key == SkippedKey(s.skippedKeys, e.pubkey, e.number)
    IN  IF ~CanDecrypt(e.content, key)
        THEN Null(s)
        ELSE [ok |-> TRUE,
              inner |-> Decrypt(e.content, key),
              state |-> s]

\* Receive, pubkey is a key of skippedKeys: the stored key, then evicted
DecryptSkipped(s, e) ==
    LET key == SkippedKey(s.skippedKeys, e.pubkey, e.number)
    IN  IF ~CanDecrypt(e.content, key)
        THEN Null(s)
        ELSE [ok |-> TRUE,
              inner |-> Decrypt(e.content, key),
              state |-> [s EXCEPT !.skippedKeys =
                            EvictSkipped(@, e.pubkey, e.number)]]

\* mutant of DecryptEvent: an event from an unknown pubkey makes the session
\* expect that pubkey next
DecryptEvent_AdoptsUnknown(s, e, fresh) ==
    IF HasSkipped(s.skippedKeys, e.pubkey, e.number)
    THEN DecryptSkipped(s, e)
    ELSE IF e.pubkey # 0 /\ e.pubkey = s.theirCurrentRatchetPublic
    THEN DecryptCurrentChain(s, s, e)
    ELSE IF e.pubkey # 0 /\ e.pubkey = s.theirNextRatchetPublic
    THEN IF TooManySkipped(s, e.previousChainLength)
         THEN Null(s)
         ELSE DecryptCurrentChain(s, RatchetStep(s, e, fresh), e)
    ELSE Null([s EXCEPT !.theirNextRatchetPublic = e.pubkey,
                        !.subs = OpenSubs(s.theirCurrentRatchetPublic,
                                          e.pubkey)])

\* decryptEvent(event) -> innerEvent | null, with the state it leaves
DecryptEvent(s, e, fresh) ==
    IF HasSkipped(s.skippedKeys, e.pubkey, e.number)
    THEN DecryptSkipped(s, e)
    ELSE IF e.pubkey # 0 /\ e.pubkey = s.theirCurrentRatchetPublic
    THEN DecryptCurrentChain(s, s, e)
    ELSE IF e.pubkey # 0 /\ e.pubkey = s.theirNextRatchetPublic
    THEN IF TooManySkipped(s, e.previousChainLength)
         THEN Null(s)
         ELSE DecryptCurrentChain(s, RatchetStep(s, e, fresh), e)
    ELSE Null(s)


----------------------------------------------------------------------------
(* inviteUtils: session creation *)

\* mutant of CreateSessionFromAccept: the pair handed in is ignored and a
\* new one is generated
CreateSessionFromAccept_IgnoresKeyPair(theirEphemeralPublicKey, sharedSecret, isInitiator, ourKeyPair, sessionName, fresh1, fresh2) ==
    [session |-> SessionInit(theirEphemeralPublicKey, fresh1, isInitiator,
                             sharedSecret, sessionName, fresh2),
     sessionKey |-> fresh1]

\* createSessionFromAccept: sessionKey = ourKeyPair ?? a generated pair;
\* session = Session.init(nostrSubscribe, theirEphemeralPublicKey,
\* sessionKey.privateKey, isInitiator, sharedSecret, sessionName).
\* ourKeyPair = 0 stands for an absent pair; fresh1 and fresh2 are the pairs
\* generateEphemeralKeypair and Session.init generate.
CreateSessionFromAccept(theirEphemeralPublicKey, sharedSecret, isInitiator, ourKeyPair, sessionName, fresh1, fresh2) ==
    LET sessionKey == IF ourKeyPair # 0 THEN ourKeyPair ELSE fresh1
    IN  [session |-> SessionInit(theirEphemeralPublicKey, sessionKey,
                                 isInitiator, sharedSecret, sessionName,
                                 fresh2),
         sessionKey |-> sessionKey]

----------------------------------------------------------------------------
(* Two mirrored sessions exchanging events (SpecSession) *)

Sides == {"I", "R"}
Peer(side) == IF side = "I" THEN "R" ELSE "I"
\* the payload of the k-th send of a side: every send has its own
TextOf(side, k) == <<side, k>>

NoCall ==
    [kind |-> "none", side |-> "I", ok |-> FALSE, inner |-> <<>>,
     genuine |-> FALSE, first |-> FALSE, matched |-> FALSE, text |-> <<>>,
     before |-> <<>>, after |-> <<>>]

\* events a relay may hand to a session that no peer session produced
Junk(s) ==
    {[pubkey |-> p, number |-> s.receivingChainMessageNumber + 1,
      previousChainLength |-> s.receivingChainMessageNumber + 1,
      nextPublicKey |-> 99, content |-> <<NoKey, <<>>>>] :
        p \in {s.theirCurrentRatchetPublic, s.theirNextRatchetPublic, 99}
                \ {0}}
    \cup
    {[pubkey |-> s.skippedKeys[i].pub, number |-> n,
      previousChainLength |-> 0,
      nextPublicKey |-> 99, content |-> <<NoKey, <<>>>>] :
        i \in 1..Len(s.skippedKeys), n \in 0..1}

\* the event's pubkey is one the session knows
Matches(s, e) ==
    \/ e.pubkey # 0 /\ e.pubkey = s.theirCurrentRatchetPublic
    \/ e.pubkey # 0 /\ e.pubkey = s.theirNextRatchetPublic
    \/ e.pubkey \in SkippedPubs(s.skippedKeys)

\* no invite exists: the state of the handshake's variables in a run that
\* is about sessions alone
InviteIdle ==
    /\ ivKind = "none" /\ invite = <<>> /\ ilist = <<>>
    /\ listening = FALSE /\ envelopes = {} /\ accepts = {}
    /\ deliveries = <<>> /\ queue = <<>> /\ calls = <<>> /\ thrown = {}

\* no session is driven: the state of the sessions' variables in a run that
\* is about something else
SessionIdle ==
    /\ sessions = <<>> /\ net = {} /\ log = <<>> /\ deliv = <<>>
    /\ received = <<>> /\ failed = <<>> /\ lastCall = NoCall

\* no list is held
ListIdle ==
    lists = <<>> /\ gone = <<>> /\ built = <<>> /\ after = <<>> /\ ops = 0

\* no DeviceRecord is held
RecordIdle == record = <<>> /\ rlast = <<>> /\ rotated = <<>>

\* no store exists
StoreIdle ==
    /\ records = <<>> /\ storage = <<>> /\ unsaved = {} /\ savedKeys = {}
    /\ slast = <<>> /\ sops = 0

\* no session has been rebuilt
OfflineIdle == offline = <<>> /\ twinlog = <<>>

\* no relay exists
RelayIdle ==
    /\ relay = <<>> /\ unsubs = <<>> /\ invocations = <<>> /\ pubs = {}
    /\ rcall = <<>> /\ rcalls = 0

\* nobody follows a user's invites
FromUserIdle == seenIds = {} /\ onInviteCalls = <<>> /\ fuLast = <<>>

notSession ==
    <<inviteVars, listVars, recordVars, storeVars, offlineVars, busVars>>
notInvite ==
    <<sessionVars, listVars, recordVars, storeVars, offlineVars, busVars>>
notList ==
    <<sessionVars, inviteVars, recordVars, storeVars, offlineVars, busVars,
      nextKeyId>>
notRecord ==
    <<sessionVars, inviteVars, listVars, storeVars, offlineVars, busVars,
      nextKeyId>>
notStore ==
    <<sessionVars, inviteVars, listVars, recordVars, offlineVars, busVars,
      nextKeyId>>
notOffline ==
    <<log, deliv, received, failed, lastCall, inviteVars, listVars,
      recordVars, storeVars, busVars>>
notRelay ==
    <<sessionVars, inviteVars, listVars, recordVars, storeVars, offlineVars,
      fromUserVars, nextKeyId>>
notFromUser ==
    <<sessionVars, inviteVars, listVars, recordVars, storeVars, offlineVars,
      relayVars, nextKeyId>>

\* the sessions of the offline tests and of createSessionFromAccept's test:
\* the responder holds pair 1 and the shared secret 1, the initiator's
\* session key is pair 2 and its next ratchet key pair 3 (pairs 4 and 5 are
\* those generated and not used on the responder's side)
SessionInitState ==
    /\ sessions =
         [side \in Sides |->
            IF side = "I"
            THEN CreateSessionFromAccept(1, 1, TRUE, 0, 0, 2, 3).session
            ELSE CreateSessionFromAccept(2, 1, FALSE, 1, 0, 4, 5).session]
    /\ net = {}
    /\ nextKeyId = 6
    /\ log = [side \in Sides |-> <<>>]
    /\ deliv = [side \in Sides |-> <<>>]
    /\ received = [side \in Sides |-> {}]
    /\ failed = [side \in Sides |-> FALSE]
    /\ lastCall = NoCall
    /\ InviteIdle
    /\ ListIdle
    /\ RecordIdle
    /\ StoreIdle
    /\ OfflineIdle
    /\ RelayIdle
    /\ FromUserIdle

SentBy(side) == {m \in net : m.to = Peer(side)}

\* session.send(text); the caller publishes the event
SessSend(side) ==
    /\ Cardinality(net) < MaxSend
    /\ CanSend(sessions[side])
    /\ LET text == TextOf(side, Cardinality(SentBy(side)) + 1)
           r    == Send(sessions[side], text, nextKeyId)
       IN  /\ sessions' = [sessions EXCEPT ![side] = r.state]
           /\ net' = net \cup {[to |-> Peer(side), ev |-> r.event]}
           /\ nextKeyId' = IF r.state.ourNextRatchetKey = nextKeyId
                           THEN nextKeyId + 1 ELSE nextKeyId
    /\ lastCall' = NoCall
    /\ UNCHANGED <<log, deliv, received, failed, notSession>>

\* session.send(text) on a responder that has not heard from its peer
SessSendRefused(side) ==
    /\ ~CanSend(sessions[side])
    /\ lastCall' = [NoCall EXCEPT !.kind = "refused", !.side = side]
    /\ UNCHANGED <<sessions, net, nextKeyId, log, deliv, received, failed,
                   notSession>>

\* the bus hands an event to the session: decryptEvent, then the onEvent
\* handlers for an event that decrypted
SessDeliver(side, e) ==
    /\ LET r       == DecryptEvent(sessions[side], e, nextKeyId)
           genuine == [to |-> side, ev |-> e] \in net
           first   == e \notin received[side]
       IN  /\ sessions' = [sessions EXCEPT ![side] = r.state]
           /\ nextKeyId' = IF r.state.ourNextRatchetKey = nextKeyId
                           THEN nextKeyId + 1 ELSE nextKeyId
           /\ log' = IF r.ok THEN [log EXCEPT ![side] = Append(@, r.inner)]
                     ELSE log
           /\ deliv' = IF genuine /\ first
                       THEN [deliv EXCEPT ![side] = Append(@, e.content[2])]
                       ELSE deliv
           /\ received' = IF genuine
                          THEN [received EXCEPT ![side] = @ \cup {e}]
                          ELSE received
           /\ failed' = IF ~r.ok /\ Matches(sessions[side], e)
                        THEN [failed EXCEPT ![side] = TRUE] ELSE failed
           /\ lastCall' = [kind |-> "decrypt", side |-> side, ok |-> r.ok,
                           inner |-> r.inner, genuine |-> genuine,
                           first |-> first,
                           matched |-> Matches(sessions[side], e),
                           text |-> e.content[2],
                           before |-> <<sessions[side]>>,
                           after |-> <<r.state>>]
    /\ UNCHANGED <<net, notSession>>

SessionNext ==
    \/ \E side \in Sides : SessSend(side)
    \/ \E side \in Sides : SessSendRefused(side)
    \/ \E side \in Sides :
         \E e \in {m.ev : m \in net} \cup Junk(sessions[side]) :
            SessDeliver(side, e)

SpecSession == SessionInitState /\ [][SessionNext]_vars


----------------------------------------------------------------------------
(* Claims about the session *)

\* C1: every event produced by a send of one of two mirrored sessions, when
\* it is passed to the peer's decryptEvent, decrypts to an inner event whose
\* content is the plaintext given to that send.
C1_DecryptYieldsSentPlaintext ==
    (lastCall.kind = "decrypt" /\ lastCall.genuine /\ lastCall.first)
        => (lastCall.ok /\ lastCall.inner = lastCall.text)

\* C1 witness: the initiator decrypts a reply of the responder, which had
\* itself decrypted an event of the initiator
C1_Witness ==
    /\ lastCall.kind = "decrypt" /\ lastCall.side = "I"
    /\ lastCall.genuine /\ lastCall.first /\ lastCall.ok
    /\ Len(log["R"]) >= 1

\* C2: whatever the order in which the events of a sender are delivered,
\* the receiver decrypts each of them and its onEvent handlers see the
\* payloads in the order of delivery.
C2_HandlersSeeDeliveryOrder ==
    \A side \in Sides : log[side] = deliv[side]

\* C2 witness: the responder saw the initiator's second payload before the
\* first
C2_Witness ==
    \E i, j \in 1..Len(log["R"]) :
        i < j /\ log["R"][i] = TextOf("I", 2) /\ log["R"][j] = TextOf("I", 1)

\* C3: decryptEvent on an event whose pubkey is neither theirCurrent, nor
\* theirNext, nor a key of skippedKeys returns null and leaves the session
\* state and its subscriptions as they were.
C3_UnknownPubkeyIsNoOp ==
    (lastCall.kind = "decrypt" /\ ~lastCall.matched)
        => (~lastCall.ok /\ lastCall.after = lastCall.before)

\* C3 witness: such a call on a session that holds skipped keys
C3_Witness ==
    /\ lastCall.kind = "decrypt" /\ ~lastCall.matched
    /\ Len(lastCall.before[1].skippedKeys) > 0

\* C4: a decryptEvent call that fails returns null and leaves the session
\* state as it was, also when the pubkey is a known one, and a genuine
\* event delivered after such a failure still decrypts.
C4_FailedDecryptLeavesState ==
    /\ (lastCall.kind = "decrypt" /\ ~lastCall.ok)
          => lastCall.after = lastCall.before
    /\ (lastCall.kind = "decrypt" /\ failed[lastCall.side]
          /\ lastCall.genuine /\ lastCall.first)
          => (lastCall.ok /\ lastCall.inner = lastCall.text)

\* C4 witness: a genuine event decrypts on a session on which an earlier
\* call with a known pubkey had failed
C4_Witness ==
    /\ lastCall.kind = "decrypt" /\ lastCall.ok
    /\ lastCall.genuine /\ lastCall.first
    /\ failed[lastCall.side]


\* the events of the net are told apart by ratchet key and message number
DistinctNumbers ==
    \A m1, m2 \in net :
        (m1.ev.pubkey = m2.ev.pubkey /\ m1.ev.number = m2.ev.number)
            => m1 = m2

\* C27: sendingChainMessageNumber increases by exactly one with each send
\* within a sending chain and is reset to 0 by each DH ratchet step, with
\* previousSendingChainMessageCount recording the length of the chain that
\* ended; no two events sent under the same ratchet key carry the same
\* message number.
C27_SendingNumbers ==
    [][/\ \A side \in Sides :
            LET b         == sessions[side]
                a         == sessions'[side]
                sent      == {m \in net' \ net : m.to = Peer(side)}
                ratcheted == a.ourCurrentRatchetKey # b.ourCurrentRatchetKey
            IN  /\ (sent # {} /\ ~ratcheted) =>
                      /\ a.sendingChainMessageNumber
                            = b.sendingChainMessageNumber + 1
                      /\ a.previousSendingChainMessageCount
                            = b.previousSendingChainMessageCount
                      /\ \A m \in sent :
                            m.ev.number = b.sendingChainMessageNumber
                /\ (sent = {} /\ ratcheted) =>
                      /\ a.sendingChainMessageNumber = 0
                      /\ a.previousSendingChainMessageCount
                            = b.sendingChainMessageNumber
                /\ (sent # {} /\ ratcheted) =>
                      /\ a.sendingChainMessageNumber = 1
                      /\ a.previousSendingChainMessageCount
                            = b.sendingChainMessageNumber
                      /\ \A m \in sent : m.ev.number = 0
                /\ (sent = {} /\ ~ratcheted) =>
                      /\ a.sendingChainMessageNumber
                            = b.sendingChainMessageNumber
                      /\ a.previousSendingChainMessageCount
                            = b.previousSendingChainMessageCount
       /\ DistinctNumbers']_vars

\* C27 witness: a session that ended a sending chain of two events sent
\* the first event of its next chain
C27_Witness ==
    \E side \in Sides :
        /\ sessions[side].previousSendingChainMessageCount = 2
        /\ sessions[side].sendingChainMessageNumber = 1

\* C28: an event that a session has decrypted is never decrypted a second
\* time: decryptEvent on it returns null, no onEvent handler is invoked and
\* the session state stays as it was.
C28_NoSecondDecrypt ==
    (lastCall.kind = "decrypt" /\ lastCall.genuine /\ ~lastCall.first)
        => (/\ ~lastCall.ok
            /\ lastCall.after = lastCall.before
            /\ \A side \in Sides : Len(log[side]) = Len(deliv[side]))

\* C28 witness: the responder is handed again the initiator's first event,
\* which it had decrypted from skippedKeys after the second
C28_Witness ==
    /\ lastCall.kind = "decrypt" /\ lastCall.side = "R"
    /\ lastCall.genuine /\ ~lastCall.first
    /\ lastCall.text = TextOf("I", 1)
    /\ \E i, j \in 1..Len(log["R"]) :
          i < j /\ log["R"][i] = TextOf("I", 2)
                /\ log["R"][j] = TextOf("I", 1)

----------------------------------------------------------------------------
(* Invite responses: inviteUtils *)

\* hexToBytes(sharedSecret): the shared secret as a symmetric nip44 key.
\* Keys of the invite layers are sets, as DH's are; no DH output is the
\* image of a secret
HexToBytes(secret) == {0 - secret}

\* the kind of an invite-response envelope (its number is configuration)
INVITE_RESPONSE_KIND == "INVITE_RESPONSE_KIND"

\* mutant of encryptInviteResponse: the payload carries no deviceId
EncryptInviteResponse_NoDeviceId(inviteeSessionPublicKey, inviteePublicKey, inviteePrivateKey, inviterPublicKey, inviterEphemeralPublicKey, sharedSecret, deviceId, randomSenderKey) ==
    LET payload     == [sessionKey |-> inviteeSessionPublicKey, deviceId |-> 0]
        dhEncrypted == Encrypt(payload, DH(inviteePrivateKey, inviterPublicKey))
        innerEvent  == [pubkey |-> inviteePublicKey,
                        content |-> Encrypt(dhEncrypted, HexToBytes(sharedSecret))]
    IN  [id |-> randomSenderKey,
         kind |-> INVITE_RESPONSE_KIND,
         pubkey |-> randomSenderKey,
         content |-> Encrypt(innerEvent,
                             DH(randomSenderKey, inviterEphemeralPublicKey)),
         tags |-> << <<"p", inviterEphemeralPublicKey>> >>]

\* mutant of encryptInviteResponse: the envelope is signed by the invitee
EncryptInviteResponse_SignedByInvitee(inviteeSessionPublicKey, inviteePublicKey, inviteePrivateKey, inviterPublicKey, inviterEphemeralPublicKey, sharedSecret, deviceId, randomSenderKey) ==
    LET payload     == [sessionKey |-> inviteeSessionPublicKey,
                        deviceId |-> deviceId]
        dhEncrypted == Encrypt(payload, DH(inviteePrivateKey, inviterPublicKey))
        innerEvent  == [pubkey |-> inviteePublicKey,
                        content |-> Encrypt(dhEncrypted, HexToBytes(sharedSecret))]
    IN  [id |-> randomSenderKey,
         kind |-> INVITE_RESPONSE_KIND,
         pubkey |-> inviteePublicKey,
         content |-> Encrypt(innerEvent,
                             DH(inviteePrivateKey, inviterEphemeralPublicKey)),
         tags |-> << <<"p", inviterEphemeralPublicKey>> >>]

\* encryptInviteResponse: the payload {sessionKey, deviceId} encrypted from
\* the invitee's identity to the inviter's, wrapped in an inner event that
\* names the invitee and is encrypted under the shared secret, wrapped in an
\* envelope signed by a random sender key and encrypted to the inviter's
\* ephemeral key. The envelope's id, a hash of its fields, is modelled by
\* the sender key, which no two envelopes share. deviceId 0 is undefined.
EncryptInviteResponse(inviteeSessionPublicKey, inviteePublicKey, inviteePrivateKey, inviterPublicKey, inviterEphemeralPublicKey, sharedSecret, deviceId, randomSenderKey) ==
    LET payload     == [sessionKey |-> inviteeSessionPublicKey,
                        deviceId |-> deviceId]
        dhEncrypted == Encrypt(payload, DH(inviteePrivateKey, inviterPublicKey))
        innerEvent  == [pubkey |-> inviteePublicKey,
                        content |-> Encrypt(dhEncrypted, HexToBytes(sharedSecret))]
    IN  [id |-> randomSenderKey,
         kind |-> INVITE_RESPONSE_KIND,
         pubkey |-> randomSenderKey,
         content |-> Encrypt(innerEvent,
                             DH(randomSenderKey, inviterEphemeralPublicKey)),
         tags |-> << <<"p", inviterEphemeralPublicKey>> >>]

\* the result of a decryptInviteResponse that threw
DecryptThrew ==
    [ok |-> FALSE, inviteePublicKey |-> 0, sessionKey |-> 0,
     deviceId |-> 0]

\* mutant of decryptInviteResponse: the innermost layer is opened without
\* the key agreed with the identity the inner event names
DecryptInviteResponse_AnyIdentity(event, inviterEphemeralPrivateKey, inviterPrivateKey, sharedSecret) ==
    LET k1 == DH(inviterEphemeralPrivateKey, event.pubkey)
    IN  IF ~CanDecrypt(event.content, k1) THEN DecryptThrew
        ELSE LET innerEvent == Decrypt(event.content, k1)
                 k2 == HexToBytes(sharedSecret)
             IN  IF ~CanDecrypt(innerEvent.content, k2) THEN DecryptThrew
                 ELSE LET dhEncrypted == Decrypt(innerEvent.content, k2)
                          payload == dhEncrypted[2]
                      IN  [ok |-> TRUE,
                           inviteePublicKey |-> innerEvent.pubkey,
                           sessionKey |-> payload.sessionKey,
                           deviceId |-> payload.deviceId]

\* decryptInviteResponse: the three layers in turn, each with the key the
\* inviter derives; a layer that does not open throws
DecryptInviteResponse(event, inviterEphemeralPrivateKey, inviterPrivateKey, sharedSecret) ==
    LET k1 == DH(inviterEphemeralPrivateKey, event.pubkey)
    IN  IF ~CanDecrypt(event.content, k1) THEN DecryptThrew
        ELSE LET innerEvent == Decrypt(event.content, k1)
                 k2 == HexToBytes(sharedSecret)
             IN  IF ~CanDecrypt(innerEvent.content, k2) THEN DecryptThrew
                 ELSE LET dhEncrypted == Decrypt(innerEvent.content, k2)
                          k3 == DH(inviterPrivateKey, innerEvent.pubkey)
                      IN  IF ~CanDecrypt(dhEncrypted, k3) THEN DecryptThrew
                          ELSE LET payload == Decrypt(dhEncrypted, k3)
                               IN  [ok |-> TRUE,
                                    inviteePublicKey |-> innerEvent.pubkey,
                                    sessionKey |-> payload.sessionKey,
                                    deviceId |-> payload.deviceId]


----------------------------------------------------------------------------
(* InviteList: the device registry *)

\* A Map keyed by deviceId is the sequence of its values in insertion order
MapHas(m, k) == \E i \in 1..Len(m) : m[i].deviceId = k
MapIndex(m, k) == CHOOSE i \in 1..Len(m) : m[i].deviceId = k
MapGet(m, k) == m[MapIndex(m, k)]
\* Map.set: a present key keeps its place
MapSet(m, v) ==
    IF MapHas(m, v.deviceId)
    THEN [m EXCEPT ![MapIndex(m, v.deviceId)] = v]
    ELSE Append(m, v)
MapDelete(m, k) == SelectSeq(m, LAMBDA v : v.deviceId # k)
MapKeys(m) == {m[i].deviceId : i \in 1..Len(m)}

\* String(n) for a timestamp or a version, and Number of such a string
StringOf(n) == <<n>>
Number(str) == str[1]

\* the kind of an invite-list event (its number is configuration)
INVITE_LIST_KIND == "INVITE_LIST_KIND"

\* new InviteList(owner, createdAt)
Create(owner, createdAt) ==
    [owner |-> owner, devices |-> <<>>, removed |-> <<>>,
     mainDeviceId |-> 0, version |-> 1, createdAt |-> createdAt]

\* InviteList.getDevice: the entry of an id, <<>> for undefined
GetDevice(list, deviceId) ==
    IF MapHas(list.devices, deviceId)
    THEN <<MapGet(list.devices, deviceId)>>
    ELSE <<>>

\* the ids of the removed entries
RemovedIds(list) == {list.removed[i].deviceId : i \in 1..Len(list.removed)}

\* mutant of addDevice: the removed list is not consulted
AddDevice_NoRemovedCheck(list, device) ==
    [list EXCEPT !.devices = MapSet(list.devices, device)]

\* InviteList.addDevice: nothing for an id in removed, else devices.set
AddDevice(list, device) ==
    IF device.deviceId \in RemovedIds(list) THEN list
    ELSE [list EXCEPT !.devices = MapSet(list.devices, device)]

\* InviteList.removeDevice: nothing for an id not in devices, else the
\* entry is deleted and {deviceId, timestamp: now} pushed on removed
RemoveDevice(list, deviceId, now) ==
    IF ~MapHas(list.devices, deviceId) THEN list
    ELSE [list EXCEPT
            !.devices = MapDelete(list.devices, deviceId),
            !.removed = Append(list.removed,
                               [deviceId |-> deviceId, timestamp |-> now])]

\* one tag of an event read by fromEvent; an empty key or id is 0
FromTag(list, tag) ==
    IF tag[1] = "device" /\ Len(tag) >= 5
    THEN IF tag[2] # 0 /\ tag[3] # 0 /\ tag[4] # 0 /\ tag[5] # ""
         THEN [list EXCEPT !.devices =
                 MapSet(list.devices,
                        [ephemeralPublicKey |-> tag[2], sharedSecret |-> tag[3],
                         deviceId |-> tag[4], label |-> tag[5],
                         ephemeralPrivateKey |-> 0])]
         ELSE list
    ELSE IF tag[1] = "removed" /\ Len(tag) >= 3
    THEN IF tag[2] # 0 /\ tag[3] # <<>>
         THEN [list EXCEPT !.removed =
                 Append(list.removed,
                        [deviceId |-> tag[2], timestamp |-> Number(tag[3])])]
         ELSE list
    ELSE IF tag[1] = "main-device" /\ Len(tag) >= 2
    THEN IF tag[2] # 0 THEN [list EXCEPT !.mainDeviceId = tag[2]] ELSE list
    ELSE IF tag[1] = "version" /\ Len(tag) >= 2
    THEN IF tag[2] # <<>> THEN [list EXCEPT !.version = Number(tag[2])]
         ELSE list
    ELSE list

RECURSIVE FromTags(_, _)
FromTags(list, tags) ==
    IF tags = <<>> THEN list
    ELSE FromTags(FromTag(list, Head(tags)), Tail(tags))

\* verifyEvent: the signature is that of the key the event names
VerifyEvent(event) == event.sig # 0 /\ event.sig = event.pubkey

\* InviteList.fromEvent: throws for an event without a valid signature,
\* else a list of the event's pubkey and created_at filled from its tags
FromEvent(event) ==
    IF ~VerifyEvent(event) THEN [ok |-> FALSE]
    ELSE [ok |-> TRUE,
          list |-> FromTags(Create(event.pubkey, event.created_at),
                            event.tags)]

\* InviteList.getEvent
GetEvent(list) ==
    [kind |-> INVITE_LIST_KIND,
     pubkey |-> list.owner,
     created_at |-> list.createdAt,
     tags |->
        << <<"d", "double-ratchet/invite-list">> >>
        \o [i \in 1..Len(list.devices) |->
              <<"device", list.devices[i].ephemeralPublicKey,
                list.devices[i].sharedSecret, list.devices[i].deviceId,
                list.devices[i].label>>]
        \o [i \in 1..Len(list.removed) |->
              <<"removed", list.removed[i].deviceId,
                StringOf(list.removed[i].timestamp)>>]
        \o (IF list.mainDeviceId # 0
            THEN << <<"main-device", list.mainDeviceId>> >> ELSE <<>>)
        \o << <<"version", StringOf(list.version)>> >>,
     content |-> ""]

\* finalizeEvent: the event signed with a key, whose public key it names
FinalizeEvent(event, key) == [event EXCEPT !.pubkey = key] @@ [sig |-> key]

\* merge's removedMap: the removed entries of both lists, one per deviceId,
\* the greater timestamp kept
RECURSIVE RemovedMap(_, _)
RemovedMap(acc, entries) ==
    IF entries = <<>> THEN acc
    ELSE LET r == Head(entries)
         IN  RemovedMap(
                IF ~MapHas(acc, r.deviceId)
                     \/ r.timestamp > MapGet(acc, r.deviceId).timestamp
                THEN MapSet(acc, r) ELSE acc,
                Tail(entries))

\* merge's allDevices after the devices of other: an entry of other takes
\* the place of one of this when other is the newer list
RECURSIVE AllDevices(_, _, _, _)
AllDevices(acc, devices, thisCreatedAt, otherCreatedAt) ==
    IF devices = <<>> THEN acc
    ELSE LET device == Head(devices)
         IN  AllDevices(
                IF ~MapHas(acc, device.deviceId)
                     \/ otherCreatedAt > thisCreatedAt
                THEN MapSet(acc, device) ELSE acc,
                Tail(devices), thisCreatedAt, otherCreatedAt)

Max(a, b) == IF a >= b THEN a ELSE b

\* mutant of merge: the devices are not filtered by the removed entries
Merge_NoFilter(this, other) ==
    [owner |-> this.owner,
     createdAt |-> Max(this.createdAt, other.createdAt),
     removed |-> RemovedMap(<<>>, this.removed \o other.removed),
     devices |-> AllDevices(this.devices, other.devices, this.createdAt,
                            other.createdAt),
     mainDeviceId |-> IF this.createdAt >= other.createdAt
                      THEN this.mainDeviceId ELSE other.mainDeviceId,
     version |-> Max(this.version, other.version)]

\* mutant of merge: only the removed entries of this list count
Merge_ThisRemovedOnly(this, other) ==
    LET removedMap == RemovedMap(<<>>, this.removed)
        allDevices == AllDevices(this.devices, other.devices,
                                 this.createdAt, other.createdAt)
    IN  [owner |-> this.owner,
         createdAt |-> Max(this.createdAt, other.createdAt),
         removed |-> removedMap,
         devices |-> SelectSeq(allDevices,
                        LAMBDA d : ~MapHas(removedMap, d.deviceId)),
         mainDeviceId |-> IF this.createdAt >= other.createdAt
                          THEN this.mainDeviceId ELSE other.mainDeviceId,
         version |-> Max(this.version, other.version)]

\* InviteList.merge
Merge(this, other) ==
    LET removedMap == RemovedMap(<<>>, this.removed \o other.removed)
        allDevices == AllDevices(this.devices, other.devices,
                                 this.createdAt, other.createdAt)
    IN  [owner |-> this.owner,
         createdAt |-> Max(this.createdAt, other.createdAt),
         removed |-> removedMap,
         devices |-> SelectSeq(allDevices,
                        LAMBDA d : ~MapHas(removedMap, d.deviceId)),
         mainDeviceId |-> IF this.createdAt >= other.createdAt
                          THEN this.mainDeviceId ELSE other.mainDeviceId,
         version |-> Max(this.version, other.version)]

----------------------------------------------------------------------------
(* Invite and InviteList: accept and listen *)

\* Invite.accept with a key as encryptor: the invitee's session, as
\* initiator towards the invite's ephemeral key, and the response envelope
InviteAccept(inv, inviteePublicKey, inviteePrivateKey, deviceId, fresh1, fresh2, fresh3) ==
    LET inviterPublicKey == IF inv.inviter # 0 THEN inv.inviter
                            ELSE inv.inviterEphemeralPublicKey
        c == CreateSessionFromAccept(inv.inviterEphemeralPublicKey,
                                     inv.sharedSecret, TRUE, 0, 0,
                                     fresh1, fresh2)
    IN  [session |-> c.session,
         event |-> EncryptInviteResponse(c.sessionKey, inviteePublicKey,
                       inviteePrivateKey, inviterPublicKey,
                       inv.inviterEphemeralPublicKey, inv.sharedSecret,
                       deviceId, fresh3)]

\* InviteList.accept: the same for the entry of deviceId; it throws when the
\* list has no such entry
InviteListAccept(list, deviceId, inviteePublicKey, inviteePrivateKey, inviteeDeviceId, fresh1, fresh2, fresh3) ==
    IF GetDevice(list, deviceId) = <<>> THEN [ok |-> FALSE]
    ELSE LET device == GetDevice(list, deviceId)[1]
             c == CreateSessionFromAccept(device.ephemeralPublicKey,
                                          device.sharedSecret, TRUE, 0, 0,
                                          fresh1, fresh2)
         IN  [ok |-> TRUE,
              session |-> c.session,
              event |-> EncryptInviteResponse(c.sessionKey, inviteePublicKey,
                            inviteePrivateKey, list.owner,
                            device.ephemeralPublicKey, device.sharedSecret,
                            inviteeDeviceId, fresh3)]

\* Invite.listen throws for an invite without the private ephemeral key
InviteListenThrows(inv) == inv.inviterEphemeralPrivateKey = 0

\* mutant of the checks of InviteList.listen: an entry without private key
\* passes
InviteListListenThrows_KeyNotNeeded(list, deviceId) ==
    GetDevice(list, deviceId) = <<>>

\* InviteList.listen throws for an id that is no device of the list and for
\* an entry without the private ephemeral key
InviteListListenThrows(list, deviceId) ==
    \/ GetDevice(list, deviceId) = <<>>
    \/ GetDevice(list, deviceId)[1].ephemeralPrivateKey = 0

\* the callback of Invite.listen up to its await: an invite whose maxUses
\* is set and reached returns at once
InviteIgnores(inv) == inv.maxUses # 0 /\ Len(inv.usedBy) >= inv.maxUses

\* mutant of the callback of Invite.listen: usedBy is pushed before the
\* response is decrypted
InviteOnResponse_PushFirst(inv, decryptor, event, fresh1, fresh2) ==
    LET r == DecryptInviteResponse(event, inv.inviterEphemeralPrivateKey,
                                   decryptor, inv.sharedSecret)
    IN  IF ~r.ok
        THEN [usedBy |-> Append(inv.usedBy, 0), onSession |-> <<>>,
              threw |-> FALSE]
        ELSE IF SessionInitThrows(r.sessionKey)
        THEN [usedBy |-> Append(inv.usedBy, r.inviteePublicKey),
              onSession |-> <<>>, threw |-> FALSE]
        ELSE [usedBy |-> Append(inv.usedBy, r.inviteePublicKey),
              onSession |->
                <<[session |-> CreateSessionFromAccept(r.sessionKey,
                                  inv.sharedSecret, FALSE,
                                  inv.inviterEphemeralPrivateKey, event.id,
                                  fresh1, fresh2).session,
                   identity |-> r.inviteePublicKey,
                   deviceId |-> r.deviceId]>>,
              threw |-> FALSE]

\* the callback of Invite.listen after its await, with a key as decryptor:
\* a response that does not decrypt throws into the catch, which drops it;
\* one that does is pushed on usedBy, the responder session is made over
\* the invite's ephemeral pair and named after the event, and onSession is
\* called; when createSessionFromAccept throws, for a payload without a
\* sessionKey, the catch drops the error after the push
InviteOnResponse(inv, decryptor, event, fresh1, fresh2) ==
    LET r == DecryptInviteResponse(event, inv.inviterEphemeralPrivateKey,
                                   decryptor, inv.sharedSecret)
    IN  IF ~r.ok
        THEN [usedBy |-> inv.usedBy, onSession |-> <<>>, threw |-> FALSE]
        ELSE IF SessionInitThrows(r.sessionKey)
        THEN [usedBy |-> Append(inv.usedBy, r.inviteePublicKey),
              onSession |-> <<>>, threw |-> FALSE]
        ELSE [usedBy |-> Append(inv.usedBy, r.inviteePublicKey),
              onSession |->
                <<[session |-> CreateSessionFromAccept(r.sessionKey,
                                  inv.sharedSecret, FALSE,
                                  inv.inviterEphemeralPrivateKey, event.id,
                                  fresh1, fresh2).session,
                   identity |-> r.inviteePublicKey,
                   deviceId |-> r.deviceId]>>,
              threw |-> FALSE]

\* the callback of InviteList.listen for the entry it captured
InviteListOnResponse(device, ownerPrivateKey, event, fresh1, fresh2) ==
    LET r == DecryptInviteResponse(event, device.ephemeralPrivateKey,
                                   ownerPrivateKey, device.sharedSecret)
    IN  IF ~r.ok
        THEN [onSession |-> <<>>, threw |-> FALSE]
        ELSE IF SessionInitThrows(r.sessionKey)
        THEN [onSession |-> <<>>, threw |-> FALSE]
        ELSE [onSession |->
                <<[session |-> CreateSessionFromAccept(r.sessionKey,
                                  device.sharedSecret, FALSE,
                                  device.ephemeralPrivateKey, event.id,
                                  fresh1, fresh2).session,
                   identity |-> r.inviteePublicKey,
                   deviceId |-> r.deviceId]>>,
              threw |-> FALSE]


----------------------------------------------------------------------------
(* An inviter listening, invitees accepting, a bus delivering (SpecInvite) *)

\* envelopes published in one run
MaxEnvelopes == 2
\* calls of the listen callback in one run
MaxDeliver == 2

\* the identity keys of the invitees and the device id each passes to
\* accept (0: none)
Invitees == {11, 12}
DeviceIdOf(invitee) == IF invitee = 11 THEN 0 ELSE 7

\* what a forged response gets wrong
Forgeries == {"ephemeral", "secret", "identity", "inviter"}

\* the inviter: identity pair 10, ephemeral pair 1, shared secret 1
InviterInvite(maxUses) ==
    [inviterEphemeralPublicKey |-> 1, sharedSecret |-> 1, inviter |-> 10,
     inviterEphemeralPrivateKey |-> 1, deviceId |-> 5, maxUses |-> maxUses,
     usedBy |-> <<>>]

\* the same inviter's list, with the one device 5
InviterList ==
    [owner |-> 10,
     devices |-> <<[ephemeralPublicKey |-> 1, sharedSecret |-> 1,
                    deviceId |-> 5, label |-> "device",
                    ephemeralPrivateKey |-> 1]>>,
     removed |-> <<>>, mainDeviceId |-> 0, version |-> 1, createdAt |-> 1]

\* the invite as it is after fromUrl or fromEvent: without the private key
ParsedInvite(inv) == [inv EXCEPT !.inviterEphemeralPrivateKey = 0]

\* the lists a caller may hold: the owner's, the same read back from its
\* event, one without devices, and the owner's after removeDevice
HeldLists ==
    {InviterList,
     FromEvent(FinalizeEvent(GetEvent(InviterList), 10)).list,
     Create(10, 1),
     RemoveDevice(InviterList, 5, 1)}

InviteInitState ==
    /\ ivKind \in {"invite", "list"}
    /\ \E maxUses \in {0, 1} :
          /\ ivKind = "list" => maxUses = 0
          /\ invite \in {InviterInvite(maxUses),
                         ParsedInvite(InviterInvite(maxUses))}
          /\ ivKind = "list" => invite = InviterInvite(maxUses)
    /\ ilist \in HeldLists
    /\ ivKind = "invite" => ilist = InviterList
    /\ thrown = {}
    /\ listening = <<>>
    /\ envelopes = {}
    /\ accepts = {}
    /\ deliveries = <<>>
    /\ queue = <<>>
    /\ calls = <<>>
    /\ nextKeyId = 20
    /\ SessionIdle
    /\ ListIdle
    /\ RecordIdle
    /\ StoreIdle
    /\ OfflineIdle
    /\ RelayIdle
    /\ FromUserIdle

\* an invitee accepts and publishes the envelope, or accept throws
InvAccept(invitee) ==
    /\ Cardinality(envelopes) < MaxEnvelopes
    /\ LET r == IF ivKind = "invite"
                THEN InviteAccept(invite, invitee, invitee,
                                  DeviceIdOf(invitee), nextKeyId,
                                  nextKeyId + 1, nextKeyId + 2)
                ELSE InviteListAccept(ilist, 5, invitee, invitee,
                                      DeviceIdOf(invitee), nextKeyId,
                                      nextKeyId + 1, nextKeyId + 2)
       IN  IF ivKind = "list" /\ ~r.ok
           THEN /\ thrown' = thrown \cup {"accept"}
                /\ UNCHANGED <<envelopes, accepts, nextKeyId>>
           ELSE /\ envelopes' = envelopes \cup {r.event}
                /\ accepts' = accepts \cup
                     {[id |-> r.event.id, session |-> r.session,
                       invitee |-> invitee, deviceId |-> DeviceIdOf(invitee)]}
                /\ nextKeyId' = nextKeyId + 3
                /\ UNCHANGED thrown
    /\ UNCHANGED <<ivKind, invite, ilist, listening, deliveries, queue, calls,
                   notInvite>>

\* somebody publishes a response that one layer of which the inviter
\* cannot open: encrypted to another ephemeral key, under another shared
\* secret, by another identity than the inner event names (12 for 11), or
\* for another inviter
InvForge(what) ==
    /\ Cardinality(envelopes) < MaxEnvelopes
    /\ envelopes' = envelopes \cup
         {EncryptInviteResponse(nextKeyId, 11,
              IF what = "identity" THEN 12 ELSE 11,
              IF what = "inviter" THEN 13 ELSE 10,
              IF what = "ephemeral" THEN 2 ELSE 1,
              IF what = "secret" THEN 2 ELSE 1,
              0, nextKeyId + 1)}
    /\ nextKeyId' = nextKeyId + 2
    /\ UNCHANGED <<ivKind, invite, ilist, listening, accepts, deliveries,
                   queue, calls, thrown, notInvite>>

\* what the callback of Invite.listen keeps of a device: nothing
NoDevice == <<>>

\* Invite.listen, InviteList.listen: the call throws, or the subscription is
\* opened; the list's callback keeps the entry it found
InvListen ==
    /\ listening = <<>>
    /\ IF ivKind = "invite"
       THEN IF InviteListenThrows(invite)
            THEN thrown' = thrown \cup {"listen"} /\ UNCHANGED listening
            ELSE listening' = <<NoDevice>> /\ UNCHANGED thrown
       ELSE IF InviteListListenThrows(ilist, 5)
            THEN thrown' = thrown \cup {"listen"} /\ UNCHANGED listening
            ELSE listening' = <<GetDevice(ilist, 5)>> /\ UNCHANGED thrown
    /\ UNCHANGED <<ivKind, invite, ilist, envelopes, accepts, deliveries,
                   queue, calls, nextKeyId, notInvite>>

\* the bus calls the callback with an envelope: the callback runs to its
\* await (or, for an exhausted Invite, to its return) and the bus goes on
InvDeliver(e) ==
    /\ listening # <<>>
    /\ Len(deliveries) < MaxDeliver
    /\ LET ignored == ivKind = "invite" /\ InviteIgnores(invite)
       IN  /\ deliveries' = Append(deliveries,
                [event |-> e,
                 status |-> IF ignored THEN "ignored" ELSE "pending",
                 pushed |-> FALSE, threw |-> FALSE])
           /\ queue' = IF ignored THEN queue
                       ELSE Append(queue, Len(deliveries) + 1)
    /\ UNCHANGED <<ivKind, invite, ilist, listening, envelopes, accepts,
                   calls, thrown, nextKeyId, notInvite>>

\* the oldest suspended callback resumes and runs to its end
InvResume ==
    /\ queue # <<>>
    /\ LET d == Head(queue)
           e == deliveries[d].event
           r == IF ivKind = "invite"
                THEN InviteOnResponse(invite, 10, e, nextKeyId, nextKeyId + 1)
                ELSE [usedBy |-> invite.usedBy] @@
                     InviteListOnResponse(listening[1][1], 10, e, nextKeyId,
                                          nextKeyId + 1)
       IN  /\ invite' = [invite EXCEPT !.usedBy = r.usedBy]
           /\ calls' = calls \o
                [i \in 1..Len(r.onSession) |->
                    [d |-> d] @@ r.onSession[i]]
           /\ deliveries' =
                [deliveries EXCEPT
                    ![d].status = IF r.onSession # <<>> THEN "done"
                                  ELSE "failed",
                    ![d].pushed = r.usedBy # invite.usedBy,
                    ![d].threw = r.threw]
    /\ queue' = Tail(queue)
    /\ UNCHANGED <<ivKind, ilist, listening, envelopes, accepts, thrown,
                   nextKeyId, notInvite>>

InviteNext ==
    \/ \E invitee \in Invitees : InvAccept(invitee)
    \/ \E what \in Forgeries : InvForge(what)
    \/ InvListen
    \/ \E e \in envelopes : InvDeliver(e)
    \/ InvResume

\* the callbacks are continuations on the microtask queue, which the
\* JavaScript run time empties: a suspended callback does resume
SpecInvite ==
    InviteInitState /\ [][InviteNext]_vars /\ WF_vars(InvResume)


----------------------------------------------------------------------------
(* Claims about the handshake *)

\* the onSession invocations made for the d-th call of the callback
CallsFor(d) == {i \in 1..Len(calls) : calls[i].d = d}

\* the first event sent by the invitee's session decrypts on the inviter's
Mirrored(sessionI, sessionR) ==
    LET text == TextOf("I", 1)
        sent == Send(sessionI, text, 0)
        got  == DecryptEvent(sessionR, sent.event, 0)
    IN  got.ok /\ got.inner = text

\* onSession was invoked once for the d-th call, with what accept was given
\* and with the mirror of the session accept returned
HandledOnce(d, a) ==
    /\ Cardinality(CallsFor(d)) = 1
    /\ \A i \in CallsFor(d) :
          /\ calls[i].identity = a.invitee
          /\ calls[i].deviceId = a.deviceId
          /\ calls[i].session.name = a.id
          /\ Mirrored(a.session, calls[i].session)

\* how far the d-th call of the callback has got
StatusOf(d) == IF d <= Len(deliveries) THEN deliveries[d].status ELSE "none"

\* the d-th call was made with the envelope accept returned as a
AcceptedBy(d, a) == d <= Len(deliveries) /\ deliveries[d].event.id = a.id

\* C5: when the envelope returned by accept is delivered to the callback of
\* listen for the same device, and the callback does not find the Invite's
\* maxUses reached, the callback runs to its end, onSession is invoked
\* once for that delivery with the invitee's public key and the device id
\* passed to accept (none when none was), and the session it receives
\* decrypts the first event sent by the session accept returned.
C5_HandshakeDeliversSession ==
    /\ [](\A a \in accepts : \A d \in 1..Len(deliveries) :
            AcceptedBy(d, a) =>
                /\ deliveries[d].status # "failed"
                /\ deliveries[d].status = "done" => HandledOnce(d, a)
                /\ deliveries[d].status # "done" => CallsFor(d) = {})
    /\ \A d \in 1..MaxDeliver :
          (StatusOf(d) = "pending") ~> (StatusOf(d) \in {"done", "failed"})

\* C5 witness: a list owner's callback has run to its end for an accept
\* that passed a device id
C5_Witness ==
    /\ ivKind = "list"
    /\ \E a \in accepts : \E d \in 1..Len(deliveries) :
          /\ AcceptedBy(d, a) /\ a.deviceId # 0
          /\ deliveries[d].status = "done" /\ HandledOnce(d, a)

\* C5 as the specification states it: every callback that has returned for
\* an envelope of accept has invoked onSession once
C5_AsStated ==
    \A a \in accepts : \A d \in 1..Len(deliveries) :
        (AcceptedBy(d, a) /\ deliveries[d].status # "pending")
            => HandledOnce(d, a)

\* no accept of this invite returned the envelope of the d-th call
Forged(d) == \A a \in accepts : deliveries[d].event.id # a.id

\* C6: a callback called with an envelope of which a layer does not open
\* invokes onSession not at all (so hands out no session), leaves usedBy as
\* it was and raises no error.
C6_UndecryptableResponseIsDropped ==
    \A d \in 1..Len(deliveries) :
        (Forged(d) /\ deliveries[d].status # "pending")
            => /\ deliveries[d].status \in {"failed", "ignored"}
               /\ CallsFor(d) = {}
               /\ ~deliveries[d].pushed
               /\ ~deliveries[d].threw

\* C6 witness: an Invite that has been used once has dropped an envelope of
\* which the two outer layers open and the innermost does not
C6_Witness ==
    /\ ivKind = "invite" /\ Len(invite.usedBy) = 1
    /\ \E d \in 1..Len(deliveries) :
          LET e == deliveries[d].event
          IN  /\ Forged(d) /\ deliveries[d].status = "failed"
              /\ CanDecrypt(e.content, DH(1, e.pubkey))
              /\ CanDecrypt(Decrypt(e.content, DH(1, e.pubkey)).content,
                            HexToBytes(1))

\* every private key of the run but that of the inviter's ephemeral pair
\* and those of the senders of envelopes, which accept drops
OtherKeys == ((1..nextKeyId) \cup (10..13)) \ ({1} \cup {e.pubkey : e \in envelopes})

\* C7: the envelope accept returns is of the invite-response kind, is signed
\* by a key that is neither the invitee's nor the inviter's identity, has
\* the one tag p with the inviter's ephemeral public key, and its content
\* opens with the inviter's ephemeral private key and with no other key; two
\* such envelopes for one invite differ in no cleartext field but the
\* sender's key.
C7_EnvelopeHidesInvitee ==
    /\ \A e \in envelopes : \A a \in accepts :
          e.id = a.id =>
            /\ e.kind = INVITE_RESPONSE_KIND
            /\ e.pubkey \notin Invitees \cup {10, 1}
            /\ e.tags = << <<"p", 1>> >>
            /\ CanDecrypt(e.content, DH(1, e.pubkey))
            /\ \A k \in OtherKeys : ~CanDecrypt(e.content, DH(k, e.pubkey))
            /\ ~CanDecrypt(e.content, HexToBytes(1))
    /\ \A e1, e2 \in envelopes :
          (e1.id \in {a.id : a \in accepts} /\ e2.id \in {a.id : a \in accepts})
            => (e1.kind = e2.kind /\ e1.tags = e2.tags)

\* C7 witness: two invitees have accepted the same invite
C7_Witness ==
    \E a1, a2 \in accepts :
        /\ a1.invitee # a2.invitee
        /\ {a1.id, a2.id} \subseteq {e.id : e \in envelopes}

\* C8: an Invite with maxUses set never holds more entries in usedBy, and
\* never has invoked onSession more often, than maxUses.
C8_MaxUsesBoundsUses ==
    (ivKind = "invite" /\ invite.maxUses # 0)
        => /\ Len(invite.usedBy) <= invite.maxUses
           /\ Len(calls) <= invite.maxUses


----------------------------------------------------------------------------
(* Replicas of one owner's InviteList (SpecList) *)

\* operations applied in one run
MaxOps == 5

\* two devices of the owner, whose identity pair is 10, each with its list
Replicas == {"a", "b"}
DeviceIds == {1, 2}
Times == {1, 2}

\* the entries a device may add for an id: InviteList.createDevice(label)'s
\* for a label or for the empty string
DeviceEntries ==
    {[ephemeralPublicKey |-> 30 + id, sharedSecret |-> 40 + id,
      deviceId |-> id, label |-> label, ephemeralPrivateKey |-> 30 + id] :
        id \in DeviceIds, label \in {"x", ""}}

\* events signed by the owner that no getEvent of the library made: a
\* device tag and a removed tag for one id, in either order, a device tag
\* too short before a main-device tag and a version tag, and one event
\* signed by somebody else
OtherEvents ==
    {FinalizeEvent(
        [kind |-> INVITE_LIST_KIND, pubkey |-> 10, created_at |-> 2,
         tags |-> tags, content |-> ""], 10) :
        tags \in {<< <<"device", 31, 41, 1, "x">>, <<"removed", 1, StringOf(1)>> >>,
                  << <<"removed", 1, StringOf(1)>>, <<"device", 31, 41, 1, "x">> >>,
                  << <<"device", 31, 41>>, <<"device", 32, 42, 2, "y">>,
                     <<"main-device", 2>>, <<"version", StringOf(2)>> >>}}
    \cup
    {[FinalizeEvent(GetEvent(Create(10, 2)), 10) EXCEPT !.sig = 13]}

ListInitState ==
    /\ lists \in [Replicas -> {Create(10, t) : t \in Times}]
    /\ gone = [l \in Replicas |-> {}]
    /\ built = [l \in Replicas |-> TRUE]
    /\ after = [l \in Replicas |-> {}]
    /\ ops = 0
    /\ nextKeyId = 0
    /\ SessionIdle
    /\ InviteIdle
    /\ RecordIdle
    /\ StoreIdle
    /\ OfflineIdle
    /\ RelayIdle
    /\ FromUserIdle

\* list.addDevice(device)
ListAdd(l, device) ==
    /\ ops < MaxOps
    /\ lists' = [lists EXCEPT ![l] = AddDevice(@, device)]
    /\ after' = IF device.deviceId \in gone[l]
                THEN [after EXCEPT ![l] = @ \cup {"addDevice"}] ELSE after
    /\ ops' = ops + 1
    /\ UNCHANGED <<gone, built, notList>>

\* list.removeDevice(deviceId) at the time now
ListRemove(l, deviceId, now) ==
    /\ ops < MaxOps
    /\ lists' = [lists EXCEPT ![l] = RemoveDevice(@, deviceId, now)]
    /\ gone' = IF MapHas(lists[l].devices, deviceId)
               THEN [gone EXCEPT ![l] = @ \cup {deviceId}] ELSE gone
    /\ after' = IF deviceId \in gone[l]
                THEN [after EXCEPT ![l] = @ \cup {"removeDevice"}] ELSE after
    /\ ops' = ops + 1
    /\ UNCHANGED <<built, notList>>

\* replica l takes the merge of its list with that of replica m, as
\* this.merge(other) or as other.merge(this)
ListMerge(l, m, asThis) ==
    /\ ops < MaxOps
    /\ l # m
    /\ lists' = [lists EXCEPT ![l] = IF asThis THEN Merge(lists[l], lists[m])
                                     ELSE Merge(lists[m], lists[l])]
    /\ gone' = [gone EXCEPT ![l] = @ \cup gone[m]]
    /\ after' = IF \E id \in gone[l] :
                      /\ MapHas(lists[m].devices, id)
                      /\ lists[m].createdAt > lists[l].createdAt
                THEN [after EXCEPT ![l] = @ \cup {"merge"}] ELSE after
    /\ built' = [built EXCEPT ![l] = FALSE]
    /\ ops' = ops + 1
    /\ UNCHANGED notList

\* replica l replaces its list by the one it reads from an event: the
\* published list of replica m or another event
ListFromEvent(l, event) ==
    /\ ops < MaxOps
    /\ LET r == FromEvent(event)
       IN  IF r.ok
           THEN /\ lists' = [lists EXCEPT ![l] = r.list]
                /\ gone' = [gone EXCEPT ![l] = {}]
                /\ built' = [built EXCEPT ![l] = FALSE]
                /\ after' = [after EXCEPT ![l] = {}]
           ELSE UNCHANGED <<lists, gone, built, after>>
    /\ ops' = ops + 1
    /\ UNCHANGED notList

\* list.mainDeviceId = deviceId
ListSetMain(l, deviceId) ==
    /\ ops < MaxOps
    /\ lists' = [lists EXCEPT ![l].mainDeviceId = deviceId]
    /\ ops' = ops + 1
    /\ UNCHANGED <<gone, built, after, notList>>

ListNext ==
    \/ \E l \in Replicas : \E device \in DeviceEntries : ListAdd(l, device)
    \/ \E l \in Replicas : \E id \in DeviceIds : \E now \in Times :
          ListRemove(l, id, now)
    \/ \E l, m \in Replicas : \E asThis \in BOOLEAN : ListMerge(l, m, asThis)
    \/ \E l, m \in Replicas :
          ListFromEvent(l, FinalizeEvent(GetEvent(lists[m]), 10))
    \/ \E l \in Replicas : \E event \in OtherEvents : ListFromEvent(l, event)
    \/ \E l \in Replicas : \E id \in DeviceIds : ListSetMain(l, id)

SpecList == ListInitState /\ [][ListNext]_vars

\* C14: InviteList.accept and InviteList.listen throw for an id that is no
\* active device of the list (never added, or removed), listen throws for
\* an entry without ephemeralPrivateKey, and Invite.listen throws for an
\* invite without inviterEphemeralPrivateKey; a call that throws opens no
\* subscription, creates no session and leaves the list or invite as it
\* was.
C14_FailingCallsChangeNothing ==
    /\ (ivKind = "list" /\ GetDevice(ilist, 5) = <<>>)
          => /\ accepts = {} /\ listening = <<>> /\ calls = <<>>
             /\ ilist \in {Create(10, 1), RemoveDevice(InviterList, 5, 1)}
    /\ (ivKind = "list" /\ GetDevice(ilist, 5) # <<>>
          /\ GetDevice(ilist, 5)[1].ephemeralPrivateKey = 0)
          => /\ listening = <<>> /\ calls = <<>>
             /\ ilist = FromEvent(FinalizeEvent(GetEvent(InviterList), 10)).list
    /\ (ivKind = "invite" /\ invite.inviterEphemeralPrivateKey = 0)
          => /\ listening = <<>> /\ calls = <<>>
             /\ invite \in {ParsedInvite(InviterInvite(n)) : n \in {0, 1}}
    /\ "accept" \in thrown => (ivKind = "list" /\ GetDevice(ilist, 5) = <<>>)
    /\ "listen" \in thrown => listening = <<>>

\* C14 witness: accept and listen have both thrown on a list from which the
\* device was removed
C14_Witness ==
    /\ ivKind = "list" /\ ilist = RemoveDevice(InviterList, 5, 1)
    /\ thrown = {"accept", "listen"}

\* C9: in every InviteList reachable through create, fromEvent, addDevice,
\* removeDevice and merge, no deviceId is at once in removed and in devices.
C9_RemovedNotActive ==
    \A l \in Replicas : RemovedIds(lists[l]) \cap MapKeys(lists[l].devices) = {}

\* C10: an id that removeDevice has moved to removed is no active device of
\* that list after any addDevice, removeDevice or merge, whatever the other
\* list of the merge holds, and addDevice of an entry for it changes
\* nothing.
C10_RemovedStaysRemoved ==
    \A l \in Replicas : \A id \in gone[l] :
        /\ GetDevice(lists[l], id) = <<>>
        /\ \A device \in DeviceEntries :
              device.deviceId = id => AddDevice(lists[l], device) = lists[l]

\* C10 witness: after the removal, the replica was asked to add the id
\* again and was merged with a newer list that held the device
C10_Witness ==
    \E l \in Replicas :
        gone[l] # {} /\ {"addDevice", "merge"} \subseteq after[l]

\* getAllDevices().map(d => d.deviceId) as a set
ActiveIds(list) == MapKeys(list.devices)

\* C11: for all lists a and b, a.merge(b) and b.merge(a) have the same set
\* of active device ids and the same set of removed device ids.
C11_MergeCommutes ==
    \A l, m \in Replicas :
        /\ ActiveIds(Merge(lists[l], lists[m]))
              = ActiveIds(Merge(lists[m], lists[l]))
        /\ RemovedIds(Merge(lists[l], lists[m]))
              = RemovedIds(Merge(lists[m], lists[l]))

\* C11 witness: two lists of equal createdAt hold different entries for one
\* id, and one of them has removed an id the other holds
C11_Witness ==
    \E l, m \in Replicas : \E id1, id2 \in DeviceIds :
        /\ lists[l].createdAt = lists[m].createdAt
        /\ MapHas(lists[l].devices, id1) /\ MapHas(lists[m].devices, id1)
        /\ MapGet(lists[l].devices, id1) # MapGet(lists[m].devices, id1)
        /\ id2 \in gone[l] /\ MapHas(lists[m].devices, id2)
        /\ ActiveIds(Merge(lists[l], lists[m])) = {id1}

\* getAllDevices() as a set
ActiveDevices(list) == {list.devices[i] : i \in 1..Len(list.devices)}

\* two lists show the same active devices and the same removed ids
SameObservable(a, b) ==
    ActiveDevices(a) = ActiveDevices(b) /\ RemovedIds(a) = RemovedIds(b)

\* C12: for every list a, a.merge(a) has the same set of active devices and
\* the same set of removed ids as a, and (a.merge(b)).merge(b) has the same
\* sets as a.merge(b).
C12_MergeIdempotent ==
    \A l, m \in Replicas :
        /\ SameObservable(Merge(lists[l], lists[l]), lists[l])
        /\ SameObservable(Merge(Merge(lists[l], lists[m]), lists[m]),
                          Merge(lists[l], lists[m]))

\* the part of C12 about merging the same list twice
C12_SecondMergeChangesNothing ==
    \A l, m \in Replicas :
        SameObservable(Merge(Merge(lists[l], lists[m]), lists[m]),
                       Merge(lists[l], lists[m]))

\* C12 holds of every list in which no removed id is an active device
C12_IdempotentOnConsistent ==
    \A l \in Replicas :
        RemovedIds(lists[l]) \cap ActiveIds(lists[l]) = {}
            => SameObservable(Merge(lists[l], lists[l]), lists[l])

\* the removed entries of a list as a set
RemovedEntries(list) == {list.removed[i] : i \in 1..Len(list.removed)}

\* the greatest timestamp under which either list has removed an id
MaxTimestamp(a, b, id) ==
    LET ts == {r.timestamp : r \in {x \in RemovedEntries(a) \cup RemovedEntries(b) :
                                       x.deviceId = id}}
    IN  CHOOSE t \in ts : \A u \in ts : u <= t

\* r is the merge of a and b as the specification defines it; where a and
\* b have the same createdAt the specification names no winner, and r may
\* follow either
IsReferenceMerge(r, a, b) ==
    LET removedIds == RemovedIds(a) \cup RemovedIds(b)
        activeIds  == (ActiveIds(a) \cup ActiveIds(b)) \ removedIds
    IN  /\ r.createdAt = Max(a.createdAt, b.createdAt)
        /\ RemovedEntries(r) =
              {[deviceId |-> id, timestamp |-> MaxTimestamp(a, b, id)] :
                  id \in removedIds}
        /\ Len(r.removed) = Cardinality(removedIds)
        /\ ActiveIds(r) = activeIds
        /\ Len(r.devices) = Cardinality(activeIds)
        /\ \A id \in activeIds :
              LET d == MapGet(r.devices, id)
              IN  IF id \in ActiveIds(a) /\ id \in ActiveIds(b)
                  THEN IF a.createdAt > b.createdAt
                       THEN d = MapGet(a.devices, id)
                       ELSE IF b.createdAt > a.createdAt
                       THEN d = MapGet(b.devices, id)
                       ELSE d \in {MapGet(a.devices, id), MapGet(b.devices, id)}
                  ELSE IF id \in ActiveIds(a) THEN d = MapGet(a.devices, id)
                  ELSE d = MapGet(b.devices, id)
        /\ IF a.createdAt > b.createdAt THEN r.mainDeviceId = a.mainDeviceId
           ELSE IF b.createdAt > a.createdAt
           THEN r.mainDeviceId = b.mainDeviceId
           ELSE r.mainDeviceId \in {a.mainDeviceId, b.mainDeviceId}
        /\ r.version = Max(a.version, b.version)

\* C13: a.merge(b) is the reference merge: createdAt the maximum; removed
\* the union of both removed lists, one entry per deviceId with the
\* greatest timestamp; devices every deviceId of either input not in that
\* union, the entry of the input with the greater createdAt when both have
\* it; mainDeviceId that of the input with the greater createdAt; version
\* the maximum.
C13_MergeIsReferenceMerge ==
    \A l, m \in Replicas :
        IsReferenceMerge(Merge(lists[l], lists[m]), lists[l], lists[m])

\* C13 witness: the other list is the newer one, both hold an entry for one
\* id and the entries differ, and this list has removed an id that the
\* other holds
C13_Witness ==
    \E l, m \in Replicas : \E id1, id2 \in DeviceIds :
        /\ lists[m].createdAt > lists[l].createdAt
        /\ MapHas(lists[l].devices, id1) /\ MapHas(lists[m].devices, id1)
        /\ MapGet(lists[l].devices, id1) # MapGet(lists[m].devices, id1)
        /\ id2 \in gone[l] /\ MapHas(lists[m].devices, id2)
        /\ MapGet(Merge(lists[l], lists[m]).devices, id1)
              = MapGet(lists[m].devices, id1)


\* the fields of a device entry an event carries (all but ephemeralPrivateKey)
PublicEntry(device) ==
    [ephemeralPublicKey |-> device.ephemeralPublicKey,
     sharedSecret |-> device.sharedSecret,
     deviceId |-> device.deviceId,
     label |-> device.label]

PublicDevices(list) == {PublicEntry(d) : d \in ActiveDevices(list)}

\* InviteList.fromEvent(finalizeEvent(list.getEvent(), ownerPrivateKey))
RoundTrip(list) == FromEvent(FinalizeEvent(GetEvent(list), list.owner))

\* what the round-trip test compares, and the removed entries
SameListData(a, b) ==
    /\ a.owner = b.owner
    /\ a.createdAt = b.createdAt
    /\ a.version = b.version
    /\ a.mainDeviceId = b.mainDeviceId
    /\ a.removed = b.removed
    /\ PublicDevices(a) = PublicDevices(b)

RoundTripPreserves(list) ==
    /\ RoundTrip(list).ok
    /\ SameListData(list, RoundTrip(list).list)

\* C15: for a list built by create, addDevice, removeDevice and setting
\* mainDeviceId, fromEvent of the signed getEvent gives a list with the same
\* owner, createdAt, version, mainDeviceId, removed entries and active
\* devices (all fields of each but ephemeralPrivateKey).  Violated: a device
\* added with the empty label is written by getEvent and dropped by
\* fromEvent, whose test of the tag takes an empty label for a missing one.
C15_RoundTripPreservesList ==
    \A l \in DOMAIN lists : built[l] => RoundTripPreserves(lists[l])

\* what holds of every list, built or merged or read: the round trip keeps
\* everything but the devices whose label is empty
C15_RoundTripDropsEmptyLabels ==
    \A l \in DOMAIN lists :
        LET r == RoundTrip(lists[l])
        IN  /\ r.ok
            /\ r.list.owner = lists[l].owner
            /\ r.list.createdAt = lists[l].createdAt
            /\ r.list.version = lists[l].version
            /\ r.list.mainDeviceId = lists[l].mainDeviceId
            /\ r.list.removed = lists[l].removed
            /\ PublicDevices(r.list) =
                  {d \in PublicDevices(lists[l]) : d.label # ""}

\* a built list with a labelled device, a removed entry and a main device
C15_LabelledListBuilt ==
    \E l \in DOMAIN lists :
        /\ built[l]
        /\ lists[l].devices # <<>> /\ lists[l].removed # <<>>
        /\ lists[l].mainDeviceId # 0
        /\ \A d \in ActiveDevices(lists[l]) : d.label # ""


----------------------------------------------------------------------------
(* DeviceRecord *)

\* the fields of a SessionState (spec 3), as against those of the Session
\* object that holds it (its name, its subscriptions)
StateFields ==
    {"rootKey", "sendingChainKey", "receivingChainKey",
     "sendingChainMessageNumber", "receivingChainMessageNumber",
     "previousSendingChainMessageCount", "ourCurrentRatchetKey",
     "ourNextRatchetKey", "theirCurrentRatchetPublic",
     "theirNextRatchetPublic", "skippedKeys"}

\* session.state
StateOf(session) == [f \in StateFields |-> session[f]]

\* a Session in a record: obj is the identity of the object (===), name its
\* name, state its SessionState
SessionObject(obj, name, state) == [obj |-> obj, name |-> name, state |-> state]

\* createMockSession(name), the obj-th object made: a Session of that name
\* around a state of its own
CreateMockSession(obj, name) ==
    SessionObject(obj, name,
        StateOf(SessionInit(50 + obj, 60 + obj, TRUE, 1, name, 70 + obj)))

\* createDeviceRecord(deviceId) at the time now; activeSession is <<>> for
\* undefined and staleAt is 0 for undefined
CreateDeviceRecord(deviceId, now) ==
    [deviceId |-> deviceId, activeSession |-> <<>>,
     inactiveSessions |-> <<>>, createdAt |-> now, staleAt |-> 0]

\* array.slice(-n): the last n elements
SliceLast(array, n) ==
    SubSeq(array, Max(1, Len(array) - n + 1), Len(array))

\* mutant of rotateSession: the inactive sessions are not trimmed
RotateSession_NoTrim(rec, nextSession) ==
    IF rec.activeSession = <<>>
    THEN [rec EXCEPT !.activeSession = <<nextSession>>]
    ELSE LET current == rec.activeSession[1]
         IN  IF current.obj = nextSession.obj
                \/ current.name = nextSession.name
             THEN [rec EXCEPT !.activeSession = <<nextSession>>]
             ELSE [rec EXCEPT
                     !.inactiveSessions =
                        Append(SelectSeq(rec.inactiveSessions,
                                   LAMBDA s : /\ s.obj # current.obj
                                              /\ s.name # current.name),
                               current),
                     !.activeSession = <<nextSession>>]

\* mutant of rotateSession: only the object is compared, not the name
RotateSession_IgnoresName(rec, nextSession) ==
    IF rec.activeSession = <<>>
    THEN [rec EXCEPT !.activeSession = <<nextSession>>]
    ELSE LET current == rec.activeSession[1]
         IN  IF current.obj = nextSession.obj
             THEN [rec EXCEPT !.activeSession = <<nextSession>>]
             ELSE [rec EXCEPT
                     !.inactiveSessions =
                        SliceLast(
                           Append(SelectSeq(rec.inactiveSessions,
                                      LAMBDA s : /\ s.obj # current.obj
                                                 /\ s.name # current.name),
                                  current), 1),
                     !.activeSession = <<nextSession>>]

\* mutant of rotateSession: the oldest inactive session is the one kept
RotateSession_KeepsOldest(rec, nextSession) ==
    IF rec.activeSession = <<>>
    THEN [rec EXCEPT !.activeSession = <<nextSession>>]
    ELSE LET current == rec.activeSession[1]
         IN  IF current.obj = nextSession.obj
                \/ current.name = nextSession.name
             THEN [rec EXCEPT !.activeSession = <<nextSession>>]
             ELSE [rec EXCEPT
                     !.inactiveSessions =
                        SubSeq(
                           Append(SelectSeq(rec.inactiveSessions,
                                      LAMBDA s : /\ s.obj # current.obj
                                                 /\ s.name # current.name),
                                  current), 1, 1),
                     !.activeSession = <<nextSession>>]

\* rotateSession(record, nextSession): install when there is no active
\* session, replace in place for the same object or the same name, else
\* demote the active session and keep the last inactive one
RotateSession(rec, nextSession) ==
    IF rec.activeSession = <<>>
    THEN [rec EXCEPT !.activeSession = <<nextSession>>]
    ELSE LET current == rec.activeSession[1]
         IN  IF current.obj = nextSession.obj
                \/ current.name = nextSession.name
             THEN [rec EXCEPT !.activeSession = <<nextSession>>]
             ELSE [rec EXCEPT
                     !.inactiveSessions =
                        SliceLast(
                           Append(SelectSeq(rec.inactiveSessions,
                                      LAMBDA s : /\ s.obj # current.obj
                                                 /\ s.name # current.name),
                                  current), 1),
                     !.activeSession = <<nextSession>>]

----------------------------------------------------------------------------
(* One DeviceRecord and its rotations (SpecRecord) *)

\* rotateSession calls in one run
MaxRotate == 4

\* the sessions of the rotation tests: s1, s2, s3, and session1Updated, a
\* second object named s1
MockSessions ==
    {CreateMockSession(1, "s1"), CreateMockSession(2, "s2"),
     CreateMockSession(3, "s3"), CreateMockSession(4, "s1")}

RecordInitState ==
    /\ record = CreateDeviceRecord("d1", 1)
    /\ rlast = <<>>
    /\ rotated = <<>>
    /\ nextKeyId = 0
    /\ SessionIdle
    /\ InviteIdle
    /\ ListIdle
    /\ StoreIdle
    /\ OfflineIdle
    /\ RelayIdle
    /\ FromUserIdle

\* rotateSession(record, nextSession)
RecRotate(nextSession) ==
    /\ Len(rotated) < MaxRotate
    /\ record' = RotateSession(record, nextSession)
    /\ rlast' = <<[before |-> record, next |-> nextSession]>>
    /\ rotated' = Append(rotated, nextSession)
    /\ UNCHANGED notRecord

RecordNext == \E nextSession \in MockSessions : RecRotate(nextSession)

SpecRecord == RecordInitState /\ [][RecordNext]_vars

\* C16: in every DeviceRecord state reached from createDeviceRecord by
\* rotateSession calls, inactiveSessions holds at most one session.
C16_AtMostOneInactive == Len(record.inactiveSessions) <= 1

\* a record that holds an inactive session after three rotations
C16_Witness ==
    /\ Len(rotated) >= 3
    /\ Len(record.inactiveSessions) = 1

\* the active session of the record before the last call is the object
\* passed or bears its name
SameAsActive(call) ==
    /\ call.before.activeSession # <<>>
    /\ \/ call.before.activeSession[1].obj = call.next.obj
       \/ call.before.activeSession[1].name = call.next.name

\* C17: rotateSession on a record whose active session is the object passed
\* or has its name sets activeSession to the session passed and leaves
\* inactiveSessions as it was; on a record with no active session it
\* installs the session passed and leaves inactiveSessions as it was.
C17_ReplacedInPlace ==
    \A i \in DOMAIN rlast :
        (rlast[i].before.activeSession = <<>> \/ SameAsActive(rlast[i]))
            => /\ record.activeSession = <<rlast[i].next>>
               /\ record.inactiveSessions = rlast[i].before.inactiveSessions
               /\ record.deviceId = rlast[i].before.deviceId
               /\ record.createdAt = rlast[i].before.createdAt
               /\ record.staleAt = rlast[i].before.staleAt

\* a second object of the active session's name is passed to a record that
\* holds an inactive session
C17_Witness ==
    /\ rlast # <<>>
    /\ rlast[1].before.activeSession # <<>>
    /\ rlast[1].before.activeSession[1].obj # rlast[1].next.obj
    /\ rlast[1].before.activeSession[1].name = rlast[1].next.name
    /\ rlast[1].before.inactiveSessions # <<>>

\* C18: rotateSession on a record whose active session differs from the
\* session passed in identity and in name makes the session passed the
\* active one and the previous active session the only inactive one; after
\* rotating s1, s2, s3 the record holds s3 as active and [s2] as inactive.
C18_PreviousActiveDemoted ==
    /\ \A i \in DOMAIN rlast :
          (rlast[i].before.activeSession # <<>> /\ ~SameAsActive(rlast[i]))
              => /\ record.activeSession = <<rlast[i].next>>
                 /\ record.inactiveSessions = rlast[i].before.activeSession
    /\ rotated = <<CreateMockSession(1, "s1"), CreateMockSession(2, "s2"),
                   CreateMockSession(3, "s3")>>
          => /\ record.activeSession = <<CreateMockSession(3, "s3")>>
             /\ record.inactiveSessions = <<CreateMockSession(2, "s2")>>

\* s1, s2, s3 have been rotated in
C18_Witness ==
    rotated = <<CreateMockSession(1, "s1"), CreateMockSession(2, "s2"),
                CreateMockSession(3, "s3")>>


\* the call of the run since which the active session is the same object,
\* and the one since which it has the same name
InstalledAt ==
    CHOOSE k \in 1..Len(rotated) :
        /\ \A i \in k..Len(rotated) : rotated[i].obj = rotated[Len(rotated)].obj
        /\ \A j \in 1..(k - 1) :
              \E i \in j..Len(rotated) :
                  rotated[i].obj # rotated[Len(rotated)].obj
NamedSince ==
    CHOOSE k \in 1..Len(rotated) :
        /\ \A i \in k..Len(rotated) :
              rotated[i].name = rotated[Len(rotated)].name
        /\ \A j \in 1..(k - 1) :
              \E i \in j..Len(rotated) :
                  rotated[i].name # rotated[Len(rotated)].name

\* the active session is not among the inactive ones, by object or by name
ActiveNotInactive ==
    record.activeSession # <<>> =>
        \A i \in 1..Len(record.inactiveSessions) :
            /\ record.inactiveSessions[i].obj # record.activeSession[1].obj
            /\ record.inactiveSessions[i].name # record.activeSession[1].name

\* as stated: the inactive session, if any, is the session that was active
\* immediately before the current one was installed
C37_InactiveIsPreviousActive ==
    /\ ActiveNotInactive
    /\ (rotated # <<>> /\ record.inactiveSessions # <<>>) =>
          /\ InstalledAt > 1
          /\ record.inactiveSessions = <<rotated[InstalledAt - 1]>>

\* C37: in every DeviceRecord state reached from createDeviceRecord by
\* rotateSession calls the active session is not in inactiveSessions, no
\* inactive session has the name of the active one, and the inactive
\* session, if any, is the session that was active immediately before a
\* session of the active one's name was installed; a replacement in place
\* leaves it.
C37_InactiveIsPreviousName ==
    /\ ActiveNotInactive
    /\ rotated = <<>> => record.inactiveSessions = <<>>
    /\ rotated # <<>> =>
          /\ record.activeSession = <<rotated[Len(rotated)]>>
          /\ record.inactiveSessions =
                IF NamedSince > 1 THEN <<rotated[NamedSince - 1]>> ELSE <<>>

\* the active session was replaced in place by another object of its name
\* while the record held an inactive session
C37_Witness ==
    /\ Len(rotated) >= 3
    /\ record.inactiveSessions # <<>>
    /\ rotated[Len(rotated)].obj # rotated[Len(rotated) - 1].obj
    /\ rotated[Len(rotated)].name = rotated[Len(rotated) - 1].name


----------------------------------------------------------------------------
(* Stored session state (spec 6 "Persisted layout") *)

\* a Uint8Array as a hex string, and back
BytesToHexString(bytes) == <<"hex", bytes>>
HexStringToBytes(hex) == hex[2]

\* JSON.stringify and JSON.parse
JsonStringify(value) == <<"json", value>>
JsonParse(str) == str[2]

\* a chain key that may be undefined
SerializeOptionalKey(key) ==
    IF key = NoKey THEN NoKey ELSE BytesToHexString(key)
DeserializeOptionalKey(hex) ==
    IF hex = NoKey THEN NoKey ELSE HexStringToBytes(hex)

\* a ratchet key pair {publicKey, privateKey}: the private half is bytes;
\* 0 is an absent pair
SerializeKeyPair(pair) ==
    IF pair = 0 THEN <<>>
    ELSE <<[publicKey |-> pair, privateKey |-> BytesToHexString(pair)]>>
DeserializeKeyPair(stored) ==
    IF stored = <<>> THEN 0 ELSE HexStringToBytes(stored[1].privateKey)

\* the message keys of one skippedKeys entry: numbers as strings, keys as hex
SerializeMessageKeys(messageKeys) ==
    [str \in {StringOf(n) : n \in DOMAIN messageKeys} |->
        BytesToHexString(messageKeys[Number(str)])]
DeserializeMessageKeys(stored) ==
    [n \in {Number(str) : str \in DOMAIN stored} |->
        HexStringToBytes(stored[StringOf(n)])]

\* serializeSessionState(state)
SerializeSessionState(state) ==
    JsonStringify(
        [rootKey |-> BytesToHexString(state.rootKey),
         sendingChainKey |-> SerializeOptionalKey(state.sendingChainKey),
         receivingChainKey |-> SerializeOptionalKey(state.receivingChainKey),
         sendingChainMessageNumber |-> state.sendingChainMessageNumber,
         receivingChainMessageNumber |-> state.receivingChainMessageNumber,
         previousSendingChainMessageCount |->
            state.previousSendingChainMessageCount,
         ourCurrentRatchetKey |-> SerializeKeyPair(state.ourCurrentRatchetKey),
         ourNextRatchetKey |-> SerializeKeyPair(state.ourNextRatchetKey),
         theirCurrentRatchetPublic |-> state.theirCurrentRatchetPublic,
         theirNextRatchetPublic |-> state.theirNextRatchetPublic,
         skippedKeys |->
            [i \in DOMAIN state.skippedKeys |->
                [pub |-> state.skippedKeys[i].pub,
                 messageKeys |->
                    SerializeMessageKeys(state.skippedKeys[i].messageKeys)]]])

\* mutant of deserializeSessionState: the skipped keys are not read back
DeserializeSessionState_NoSkippedKeys(str) ==
    LET data == JsonParse(str)
    IN  [rootKey |-> HexStringToBytes(data.rootKey),
         sendingChainKey |-> DeserializeOptionalKey(data.sendingChainKey),
         receivingChainKey |-> DeserializeOptionalKey(data.receivingChainKey),
         sendingChainMessageNumber |-> data.sendingChainMessageNumber,
         receivingChainMessageNumber |-> data.receivingChainMessageNumber,
         previousSendingChainMessageCount |->
            data.previousSendingChainMessageCount,
         ourCurrentRatchetKey |-> DeserializeKeyPair(data.ourCurrentRatchetKey),
         ourNextRatchetKey |-> DeserializeKeyPair(data.ourNextRatchetKey),
         theirCurrentRatchetPublic |-> data.theirCurrentRatchetPublic,
         theirNextRatchetPublic |-> data.theirNextRatchetPublic,
         skippedKeys |-> <<>>]

\* deserializeSessionState(str)
DeserializeSessionState(str) ==
    LET data == JsonParse(str)
    IN  [rootKey |-> HexStringToBytes(data.rootKey),
         sendingChainKey |-> DeserializeOptionalKey(data.sendingChainKey),
         receivingChainKey |-> DeserializeOptionalKey(data.receivingChainKey),
         sendingChainMessageNumber |-> data.sendingChainMessageNumber,
         receivingChainMessageNumber |-> data.receivingChainMessageNumber,
         previousSendingChainMessageCount |->
            data.previousSendingChainMessageCount,
         ourCurrentRatchetKey |-> DeserializeKeyPair(data.ourCurrentRatchetKey),
         ourNextRatchetKey |-> DeserializeKeyPair(data.ourNextRatchetKey),
         theirCurrentRatchetPublic |-> data.theirCurrentRatchetPublic,
         theirNextRatchetPublic |-> data.theirNextRatchetPublic,
         skippedKeys |->
            [i \in DOMAIN data.skippedKeys |->
                [pub |-> data.skippedKeys[i].pub,
                 messageKeys |->
                    DeserializeMessageKeys(data.skippedKeys[i].messageKeys)]]]

\* new Session(nostrSubscribe, state): a session of its own name that has
\* subscribed to nothing yet
NewSession(state) == state @@ [name |-> "", subs |-> {}]

----------------------------------------------------------------------------
(* Sessions and their offline copies, side by side (SpecOffline) *)

\* events sent in one run, by both sides together
MaxOfflineSend == 4

OfflineInitState ==
    /\ sessions =
         [side \in Sides |->
            IF side = "I"
            THEN CreateSessionFromAccept(1, 1, TRUE, 0, 0, 2, 3).session
            ELSE CreateSessionFromAccept(2, 1, FALSE, 1, 0, 4, 5).session]
    /\ net = {}
    /\ nextKeyId = 6
    /\ offline = [side \in Sides |-> <<>>]
    /\ twinlog = [side \in Sides |-> <<>>]
    /\ log = <<>> /\ deliv = <<>> /\ received = <<>> /\ failed = <<>>
    /\ lastCall = NoCall
    /\ InviteIdle
    /\ ListIdle
    /\ RecordIdle
    /\ StoreIdle
    /\ RelayIdle
    /\ FromUserIdle

\* offline = new Session(subscribe,
\*     deserializeSessionState(serializeSessionState(session.state)))
OffRebuild(side) ==
    /\ offline' = [offline EXCEPT ![side] =
          <<NewSession(DeserializeSessionState(
                SerializeSessionState(StateOf(sessions[side]))))>>]
    /\ twinlog' = [twinlog EXCEPT ![side] = <<>>]
    /\ UNCHANGED <<sessions, net, nextKeyId, notOffline>>

\* send(text) on the session of a side and on its offline copy, both
\* generating the same key pair
OffSend(side) ==
    /\ Cardinality(net) < MaxOfflineSend
    /\ CanSend(sessions[side])
    /\ LET text == TextOf(side, Cardinality(SentBy(side)) + 1)
           r    == Send(sessions[side], text, nextKeyId)
       IN  /\ sessions' = [sessions EXCEPT ![side] = r.state]
           /\ net' = net \cup {[to |-> Peer(side), ev |-> r.event]}
           /\ nextKeyId' = IF r.state.ourNextRatchetKey = nextKeyId
                           THEN nextKeyId + 1 ELSE nextKeyId
           /\ IF offline[side] = <<>>
              THEN UNCHANGED <<offline, twinlog>>
              ELSE IF ~CanSend(offline[side][1])
              THEN /\ twinlog' = [twinlog EXCEPT ![side] =
                          Append(@, [call |-> "send", ours |-> <<r.event>>,
                                     theirs |-> <<>>])]
                   /\ UNCHANGED offline
              ELSE LET r2 == Send(offline[side][1], text, nextKeyId)
                   IN  /\ offline' = [offline EXCEPT ![side] = <<r2.state>>]
                       /\ twinlog' = [twinlog EXCEPT ![side] =
                             Append(@, [call |-> "send",
                                        ours |-> <<r.event>>,
                                        theirs |-> <<r2.event>>])]
    /\ UNCHANGED notOffline

\* decryptEvent(e) on the session of a side and on its offline copy; a call
\* that returns null on both is not recorded
OffDeliver(side, e) ==
    /\ LET r == DecryptEvent(sessions[side], e, nextKeyId)
       IN  /\ sessions' = [sessions EXCEPT ![side] = r.state]
           /\ nextKeyId' = IF r.state.ourNextRatchetKey = nextKeyId
                           THEN nextKeyId + 1 ELSE nextKeyId
           /\ IF offline[side] = <<>>
              THEN UNCHANGED <<offline, twinlog>>
              ELSE LET r2 == DecryptEvent(offline[side][1], e, nextKeyId)
                   IN  /\ offline' = [offline EXCEPT ![side] = <<r2.state>>]
                       /\ twinlog' =
                             IF r.ok \/ r2.ok
                             THEN [twinlog EXCEPT ![side] =
                                     Append(@, [call |-> "decryptEvent",
                                        ours |-> IF r.ok THEN <<r.inner>>
                                                 ELSE <<>>,
                                        theirs |-> IF r2.ok THEN <<r2.inner>>
                                                   ELSE <<>>])]
                             ELSE twinlog
    /\ UNCHANGED <<net, notOffline>>

OfflineNext ==
    \/ \E side \in Sides : OffRebuild(side)
    \/ \E side \in Sides : OffSend(side)
    \/ \E side \in Sides :
         \E e \in {m.ev : m \in net} \cup Junk(sessions[side]) :
            OffDeliver(side, e)

SpecOffline == OfflineInitState /\ [][OfflineNext]_vars

----------------------------------------------------------------------------
(* UserRecord and UserRecordStore *)

\* createUserRecord(publicKey); devices is a Map keyed by deviceId
CreateUserRecord(publicKey) == [publicKey |-> publicKey, devices |-> <<>>]

\* getOrCreateDevice(user, deviceId) at the time now: the user record after
\* the call
GetOrCreateDevice(user, deviceId, now) ==
    IF MapHas(user.devices, deviceId) THEN user
    ELSE [user EXCEPT
            !.devices = MapSet(@, CreateDeviceRecord(deviceId, now))]

\* mutant of serializeDeviceRecord: the inactive sessions are left out
SerializeDeviceRecord_NoInactive(rec) ==
    [deviceId |-> rec.deviceId,
     activeSession |->
        IF rec.activeSession # <<>>
        THEN <<SerializeSessionState(rec.activeSession[1].state)>>
        ELSE <<>>,
     inactiveSessions |-> <<>>,
     createdAt |-> rec.createdAt,
     staleAt |-> rec.staleAt]

\* serializeDeviceRecord(record); <<>> is the null of activeSession
SerializeDeviceRecord(rec) ==
    [deviceId |-> rec.deviceId,
     activeSession |->
        IF rec.activeSession # <<>>
        THEN <<SerializeSessionState(rec.activeSession[1].state)>>
        ELSE <<>>,
     inactiveSessions |->
        [i \in DOMAIN rec.inactiveSessions |->
            SerializeSessionState(rec.inactiveSessions[i].state)],
     createdAt |-> rec.createdAt,
     staleAt |-> rec.staleAt]

\* the name of the i-th Session object a deserialization makes: each
\* new Session has a name of its own
LoadedName(i) == <<"loaded-0", "loaded-1", "loaded-2">>[i + 1]

\* deserializeDeviceRecord(data, nostrSubscribe): new Session objects around
\* the deserialized states (objects 100, 101, ...)
DeserializeDeviceRecord(data) ==
    [deviceId |-> data.deviceId,
     activeSession |->
        IF data.activeSession # <<>>
        THEN <<SessionObject(100, LoadedName(0),
                   DeserializeSessionState(data.activeSession[1]))>>
        ELSE <<>>,
     inactiveSessions |->
        [i \in DOMAIN data.inactiveSessions |->
            SessionObject(100 + i, LoadedName(i),
                DeserializeSessionState(data.inactiveSessions[i]))],
     createdAt |-> data.createdAt,
     staleAt |-> data.staleAt]

\* serializeUserRecord(user): the devices as an array
SerializeUserRecord(user) ==
    [publicKey |-> user.publicKey,
     devices |-> [i \in DOMAIN user.devices |->
                    SerializeDeviceRecord(user.devices[i])]]

\* the devices of a stored record set one after the other into a new Map
RECURSIVE DeserializeDevices(_, _)
DeserializeDevices(devices, stored) ==
    IF stored = <<>> THEN devices
    ELSE DeserializeDevices(
            MapSet(devices, DeserializeDeviceRecord(Head(stored))),
            Tail(stored))

\* deserializeUserRecord(data, nostrSubscribe)
DeserializeUserRecord(data) ==
    [publicKey |-> data.publicKey,
     devices |-> DeserializeDevices(<<>>, data.devices)]

\* UserRecordStore.keyPrefix for the version prefix "v1", and storageKey
KeyPrefix == "v1/user/"
StorageKey(publicKey) == <<KeyPrefix, publicKey>>

\* StorageAdapter.list(prefix), and key.slice(prefix.length)
StorageList(stored, prefix) == {key \in DOMAIN stored : key[1] = prefix}
KeySlice(key) == key[2]

\* Map.set and Map.delete on the store's records
RecordsSet(recs, publicKey, user) ==
    [p \in DOMAIN recs \cup {publicKey} |->
        IF p = publicKey THEN user ELSE recs[p]]
RecordsDelete(recs, publicKey) ==
    [p \in DOMAIN recs \ {publicKey} |-> recs[p]]

\* UserRecordStore.save: nothing without a record, else storage.put of the
\* serialized record; the storage after the call
Save(recs, stored, publicKey) ==
    IF publicKey \notin DOMAIN recs THEN stored
    ELSE [key \in DOMAIN stored \cup {StorageKey(publicKey)} |->
            IF key = StorageKey(publicKey)
            THEN SerializeUserRecord(recs[publicKey])
            ELSE stored[key]]

\* UserRecordStore.load: nothing when nothing is stored, else records.set
\* of the deserialized record; the records after the call
Load(recs, stored, publicKey) ==
    IF StorageKey(publicKey) \notin DOMAIN stored THEN recs
    ELSE RecordsSet(recs, publicKey,
                    DeserializeUserRecord(stored[StorageKey(publicKey)]))

\* UserRecordStore.loadAll: load of every key listed under the prefix; the
\* loads are of different keys, so their order does not matter
RECURSIVE LoadEach(_, _, _)
LoadEach(recs, stored, keys) ==
    IF keys = {} THEN recs
    ELSE LET key == CHOOSE k \in keys : TRUE
         IN  LoadEach(Load(recs, stored, KeySlice(key)), stored,
                      keys \ {key})

LoadAll(recs, stored) == LoadEach(recs, stored, StorageList(stored, KeyPrefix))

----------------------------------------------------------------------------
(* A UserRecordStore over a storage adapter (SpecStore) *)

\* store operations in one run
MaxStoreOps == 5

PublicKeys == {"pub1", "pub2"}
RecordDeviceIds == {"d1", "d2"}

\* a user record as getOrCreate, getOrCreateDevice, rotateSession of s1 and
\* then s2 on d1, and a staleAt on d2 leave it
PreparedUser ==
    [publicKey |-> "pub1",
     devices |->
        <<RotateSession(
              RotateSession(CreateDeviceRecord("d1", 1),
                            CreateMockSession(1, "s1")),
              CreateMockSession(2, "s2")),
          [CreateDeviceRecord("d2", 2) EXCEPT !.staleAt = 3]>>]

\* what the adapter holds from elsewhere: a record under another version
ForeignStorage ==
    [key \in {<<"v0/user/", "pub3">>} |->
        SerializeUserRecord(CreateUserRecord("pub3"))]

NoStoreCall == [op |-> "none", publicKey |-> "", records |-> <<>>,
                storage |-> <<>>]

StoreInitState ==
    /\ records \in {<<>>, [p \in {"pub1"} |-> PreparedUser]}
    /\ storage = ForeignStorage
    /\ unsaved = DOMAIN records
    /\ savedKeys = {}
    /\ slast = NoStoreCall
    /\ sops = 0
    /\ nextKeyId = 0
    /\ SessionIdle
    /\ InviteIdle
    /\ ListIdle
    /\ RecordIdle
    /\ OfflineIdle
    /\ RelayIdle
    /\ FromUserIdle

\* store.getOrCreate(publicKey)
StoreGetOrCreate(publicKey) ==
    /\ sops < MaxStoreOps
    /\ publicKey \notin DOMAIN records
    /\ records' = RecordsSet(records, publicKey, CreateUserRecord(publicKey))
    /\ unsaved' = unsaved \cup {publicKey}
    /\ slast' = NoStoreCall
    /\ sops' = sops + 1
    /\ UNCHANGED <<storage, savedKeys, notStore>>

\* getOrCreateDevice(store.get(publicKey), deviceId)
StoreGetOrCreateDevice(publicKey, deviceId) ==
    /\ sops < MaxStoreOps
    /\ publicKey \in DOMAIN records
    /\ ~MapHas(records[publicKey].devices, deviceId)
    /\ records' = [records EXCEPT ![publicKey] =
                      GetOrCreateDevice(@, deviceId, 2)]
    /\ unsaved' = unsaved \cup {publicKey}
    /\ slast' = NoStoreCall
    /\ sops' = sops + 1
    /\ UNCHANGED <<storage, savedKeys, notStore>>

\* rotateSession(device, nextSession) on a device of a record of the store
StoreRotate(publicKey, deviceId, nextSession) ==
    /\ sops < MaxStoreOps
    /\ publicKey \in DOMAIN records
    /\ MapHas(records[publicKey].devices, deviceId)
    /\ records' = [records EXCEPT ![publicKey].devices =
                      MapSet(@, RotateSession(MapGet(@, deviceId),
                                              nextSession))]
    /\ unsaved' = unsaved \cup {publicKey}
    /\ slast' = NoStoreCall
    /\ sops' = sops + 1
    /\ UNCHANGED <<storage, savedKeys, notStore>>

\* await store.save(publicKey)
StoreSave(publicKey) ==
    /\ sops < MaxStoreOps
    /\ storage' = Save(records, storage, publicKey)
    /\ unsaved' = unsaved \ {publicKey}
    /\ savedKeys' = IF publicKey \in DOMAIN records
                    THEN savedKeys \cup {publicKey} ELSE savedKeys
    /\ slast' = [op |-> "save", publicKey |-> publicKey,
                 records |-> records, storage |-> storage]
    /\ sops' = sops + 1
    /\ UNCHANGED <<records, notStore>>

\* await store.load(publicKey, nostrSubscribe)
StoreLoad(publicKey) ==
    /\ sops < MaxStoreOps
    /\ records' = Load(records, storage, publicKey)
    /\ unsaved' = IF StorageKey(publicKey) \in DOMAIN storage
                  THEN unsaved \ {publicKey} ELSE unsaved
    /\ slast' = [op |-> "load", publicKey |-> publicKey,
                 records |-> records, storage |-> storage]
    /\ sops' = sops + 1
    /\ UNCHANGED <<storage, savedKeys, notStore>>

\* store.delete(publicKey)
StoreDelete(publicKey) ==
    /\ sops < MaxStoreOps
    /\ publicKey \in DOMAIN records
    /\ records' = RecordsDelete(records, publicKey)
    /\ unsaved' = unsaved \ {publicKey}
    /\ slast' = NoStoreCall
    /\ sops' = sops + 1
    /\ UNCHANGED <<storage, savedKeys, notStore>>

\* await store.deleteFromStorage(publicKey)
StoreDeleteFromStorage(publicKey) ==
    /\ sops < MaxStoreOps
    /\ StorageKey(publicKey) \in DOMAIN storage
    /\ storage' = [key \in DOMAIN storage \ {StorageKey(publicKey)} |->
                      storage[key]]
    /\ unsaved' = IF publicKey \in DOMAIN records
                  THEN unsaved \cup {publicKey} ELSE unsaved
    /\ savedKeys' = savedKeys \ {publicKey}
    /\ slast' = NoStoreCall
    /\ sops' = sops + 1
    /\ UNCHANGED <<records, notStore>>

StoreNext ==
    \/ \E publicKey \in PublicKeys : StoreGetOrCreate(publicKey)
    \/ \E publicKey \in PublicKeys : \E deviceId \in RecordDeviceIds :
          StoreGetOrCreateDevice(publicKey, deviceId)
    \/ \E publicKey \in PublicKeys : \E deviceId \in RecordDeviceIds :
          \E nextSession \in {CreateMockSession(3, "s3")} :
             StoreRotate(publicKey, deviceId, nextSession)
    \/ \E publicKey \in PublicKeys : StoreSave(publicKey)
    \/ \E publicKey \in PublicKeys : StoreLoad(publicKey)
    \/ \E publicKey \in PublicKeys : StoreDelete(publicKey)
    \/ \E publicKey \in PublicKeys : StoreDeleteFromStorage(publicKey)

SpecStore == StoreInitState /\ [][StoreNext]_vars

\* what is compared of a device record and the one loaded for it
SameStoredDevice(a, b) ==
    /\ a.deviceId = b.deviceId
    /\ a.createdAt = b.createdAt
    /\ a.staleAt = b.staleAt
    /\ (a.activeSession = <<>>) = (b.activeSession = <<>>)
    /\ a.activeSession # <<>> /\ b.activeSession # <<>>
          => a.activeSession[1].state = b.activeSession[1].state
    /\ Len(a.inactiveSessions) = Len(b.inactiveSessions)
    /\ \A i \in DOMAIN a.inactiveSessions \cap DOMAIN b.inactiveSessions :
          a.inactiveSessions[i].state = b.inactiveSessions[i].state

SameStoredUser(a, b) ==
    /\ a.publicKey = b.publicKey
    /\ MapKeys(a.devices) = MapKeys(b.devices)
    /\ \A id \in MapKeys(a.devices) \cap MapKeys(b.devices) :
          SameStoredDevice(MapGet(a.devices, id), MapGet(b.devices, id))

\* new UserRecordStore(storage, "v1") after loadAll
FreshStoreLoaded == LoadAll(<<>>, storage)

\* C19: once save has been called for every record in memory, loadAll on a
\* new store over the same storage holds exactly the saved public keys and,
\* for each, a record with the same publicKey, the same deviceIds and per
\* device the same createdAt, staleAt, presence of an active session and
\* inactive sessions with equal states; save of a key without a record and
\* load of a key with nothing stored change neither records nor storage.
C19_StoreRoundTrip ==
    /\ unsaved = {} =>
          /\ DOMAIN FreshStoreLoaded = savedKeys
          /\ DOMAIN records \subseteq DOMAIN FreshStoreLoaded
          /\ \A p \in DOMAIN records :
                /\ FreshStoreLoaded[p].publicKey = p
                /\ SameStoredUser(records[p], FreshStoreLoaded[p])
    /\ (slast.op = "save" /\ slast.publicKey \notin DOMAIN slast.records)
          => (records = slast.records /\ storage = slast.storage)
    /\ (slast.op = "load"
          /\ StorageKey(slast.publicKey) \notin DOMAIN slast.storage)
          => (records = slast.records /\ storage = slast.storage)

\* two records are in memory and saved, one of them with two devices, an
\* active and an inactive session
C19_Witness ==
    /\ unsaved = {} /\ DOMAIN records = PublicKeys
    /\ savedKeys = PublicKeys
    /\ \E id \in MapKeys(records["pub1"].devices) :
          /\ MapGet(records["pub1"].devices, id).activeSession # <<>>
          /\ MapGet(records["pub1"].devices, id).inactiveSessions # <<>>
    /\ Cardinality(MapKeys(records["pub1"].devices)) = 2

\* a save of a key without a record and a load of a key with nothing stored
\* have been made
C19_NothingToSaveOrLoad ==
    \/ slast.op = "save" /\ slast.publicKey \notin DOMAIN slast.records
    \/ slast.op = "load"
          /\ StorageKey(slast.publicKey) \notin DOMAIN slast.storage


----------------------------------------------------------------------------
(* ControllableRelay *)

\* the replaceable kinds of publish
IsReplaceable(kind) == kind >= 10000 /\ kind < 20000

\* event.tags.find((t) => t[0] === "d")?.[1]: <<value>>, <<>> for undefined
DTag(event) ==
    LET hits == {i \in 1..Len(event.tags) : event.tags[i][1] = "d"}
    IN  IF hits = {} THEN <<>>
        ELSE LET tag == event.tags[CHOOSE i \in hits : \A j \in hits : i <= j]
             IN  IF Len(tag) >= 2 THEN <<tag[2]>> ELSE <<>>

\* the id of an event: the hash of its fields
EventId(event) ==
    <<event.pubkey, event.kind, event.created_at, event.tags, event.content>>

\* publish, lines 33-55: an event that has id and sig is taken as it is,
\* any other is signed with the key handed in
VerifiedOf(event, signerSecretKey) ==
    IF "id" \in DOMAIN event /\ "sig" \in DOMAIN event THEN event
    ELSE event @@ [id |-> EventId(event), sig |-> signerSecretKey]

\* Map.set and Map.delete on the relay's events, a Map keyed by event id
EventsSet(events, event) ==
    IF \E i \in 1..Len(events) : events[i].id = event.id
    THEN [i \in 1..Len(events) |->
            IF events[i].id = event.id THEN event ELSE events[i]]
    ELSE Append(events, event)
EventsDelete(events, id) == SelectSeq(events, LAMBDA e : e.id # id)

\* new ControllableRelay(), and clear()
NewRelay == [events |-> <<>>, subscribers |-> <<>>, subscriptionCounter |-> 0]

\* nostr-tools matchFilter for the filters used: kinds and authors, each
\* a constraint only where the filter has it
MatchFilter(filter, event) ==
    /\ "kinds" \in DOMAIN filter => event.kind \in filter.kinds
    /\ "authors" \in DOMAIN filter => event.pubkey \in filter.authors

\* the stored events of the same pubkey, kind and d tag as an event
SameSlot(events, event) ==
    {i \in 1..Len(events) :
        /\ events[i].kind = event.kind
        /\ events[i].pubkey = event.pubkey
        /\ DTag(events[i]) = DTag(event)}

\* mutant of publish: nothing is replaced
Publish_KeepsAll(r, event) ==
    [relay |-> [r EXCEPT !.events = EventsSet(r.events, event)],
     calls |-> <<>>]

\* mutant of publish: the event is handed to the matching subscribers
Publish_Delivers(r, event) ==
    [relay |->
        [r EXCEPT !.events =
            EventsSet(
                IF IsReplaceable(event.kind) /\ SameSlot(r.events, event) # {}
                THEN EventsDelete(r.events,
                        r.events[CHOOSE i \in SameSlot(r.events, event) :
                                    \A j \in SameSlot(r.events, event) :
                                        i <= j].id)
                ELSE r.events,
                event)],
     calls |->
        SelectSeq([i \in 1..Len(r.subscribers) |->
                      [onEvent |-> r.subscribers[i].onEvent, event |-> event,
                       filter |-> r.subscribers[i].filter]],
                  LAMBDA c : MatchFilter(c.filter, event))]

\* publish, lines 57-70, for the verified event: for a replaceable kind the
\* first stored event of the same pubkey, kind and d tag is deleted; then
\* events.set.  calls are the callback invocations made: none.
Publish(r, event) ==
    [relay |->
        [r EXCEPT !.events =
            EventsSet(
                IF IsReplaceable(event.kind) /\ SameSlot(r.events, event) # {}
                THEN EventsDelete(r.events,
                        r.events[CHOOSE i \in SameSlot(r.events, event) :
                                    \A j \in SameSlot(r.events, event) :
                                        i <= j].id)
                ELSE r.events,
                event)],
     calls |-> <<>>]

\* subscribe(filter, onEvent): the subscription "sub-<counter>"; onEvent is
\* the identity of the callback and behaviour what it does when called
Subscribe(r, filter, onEvent, behaviour) ==
    [relay |->
        [r EXCEPT
            !.subscriptionCounter = @ + 1,
            !.subscribers =
                Append(SelectSeq(@, LAMBDA s :
                                        s.id # r.subscriptionCounter + 1),
                       [id |-> r.subscriptionCounter + 1, filter |-> filter,
                        onEvent |-> onEvent, behaviour |-> behaviour,
                        delivered |-> {}])],
     calls |-> <<>>]

\* the function subscribe returns: subscribers.delete(subId)
Unsubscribe(r, subId) ==
    [r EXCEPT !.subscribers = SelectSeq(@, LAMBDA s : s.id # subId)]

\* isDecryptionError of what a callback did
IsDecryptionError(outcome) == outcome = "throws invalid mac"

\* what the callback of a subscriber does with an event: its behaviour is
\* an outcome for each kind of event
OnEvent(sub, event) == sub.behaviour[event.kind]

\* mutant of deliverEventToSubscriber: the delivered set is not consulted
DeliverEventToSubscriber_Again(event, sub) ==
    IF ~MatchFilter(sub.filter, event)
    THEN [returned |-> FALSE, invoked |-> FALSE, threw |-> FALSE, sub |-> sub]
    ELSE [returned |-> TRUE, invoked |-> TRUE,
          threw |-> (OnEvent(sub, event) # "returns"
                        /\ ~IsDecryptionError(OnEvent(sub, event))),
          sub |-> [sub EXCEPT !.delivered = @ \cup {event.id}]]

\* deliverEventToSubscriber: what it returns, whether onEvent was called,
\* whether its error was thrown on, and the subscriber after it
DeliverEventToSubscriber(event, sub) ==
    IF event.id \in sub.delivered \/ ~MatchFilter(sub.filter, event)
    THEN [returned |-> FALSE, invoked |-> FALSE, threw |-> FALSE, sub |-> sub]
    ELSE [returned |-> TRUE, invoked |-> TRUE,
          threw |-> (OnEvent(sub, event) # "returns"
                        /\ ~IsDecryptionError(OnEvent(sub, event))),
          sub |-> [sub EXCEPT !.delivered = @ \cup {event.id}]]

\* the loops of deliver, deliverAll, deliverByKind and deliverByPubkey over
\* pairs <<event, index of the subscriber>>, in order, up to an error that
\* is thrown on
RECURSIVE DeliverPairs(_, _)
DeliverPairs(acc, pairs) ==
    IF pairs = <<>> \/ acc.threw THEN acc
    ELSE LET event == Head(pairs)[1]
             i     == Head(pairs)[2]
             d     == DeliverEventToSubscriber(event, acc.subscribers[i])
         IN  DeliverPairs(
                [subscribers |-> [acc.subscribers EXCEPT ![i] = d.sub],
                 count |-> IF d.returned /\ ~d.threw THEN acc.count + 1
                           ELSE acc.count,
                 calls |-> IF d.invoked
                           THEN Append(acc.calls,
                                  [onEvent |-> acc.subscribers[i].onEvent,
                                   event |-> event,
                                   filter |-> acc.subscribers[i].filter])
                           ELSE acc.calls,
                 threw |-> d.threw],
                Tail(pairs))

\* the pairs of a loop over some events, each with every subscriber
RECURSIVE PairsOf(_, _)
PairsOf(events, n) ==
    IF events = <<>> THEN <<>>
    ELSE [i \in 1..n |-> <<Head(events), i>>] \o PairsOf(Tail(events), n)

\* a delivery call over the chosen events and the chosen subscribers
DeliverLoop(r, pairs) ==
    DeliverPairs([subscribers |-> r.subscribers, count |-> 0,
                  calls |-> <<>>, threw |-> FALSE], pairs)

\* deliver(eventId)
Deliver(r, eventId) ==
    DeliverLoop(r, PairsOf(SelectSeq(r.events, LAMBDA e : e.id = eventId),
                           Len(r.subscribers)))

\* deliverTo(eventId, subId)
DeliverTo(r, eventId, subId) ==
    DeliverLoop(r,
        SelectSeq(PairsOf(SelectSeq(r.events, LAMBDA e : e.id = eventId),
                          Len(r.subscribers)),
                  LAMBDA p : r.subscribers[p[2]].id = subId))

\* deliverAll()
DeliverAll(r) == DeliverLoop(r, PairsOf(r.events, Len(r.subscribers)))

\* deliverByKind(kind)
DeliverByKind(r, kind) ==
    DeliverLoop(r, PairsOf(SelectSeq(r.events, LAMBDA e : e.kind = kind),
                           Len(r.subscribers)))

\* deliverByPubkey(pubkey)
DeliverByPubkey(r, pubkey) ==
    DeliverLoop(r, PairsOf(SelectSeq(r.events, LAMBDA e : e.pubkey = pubkey),
                           Len(r.subscribers)))

----------------------------------------------------------------------------
(* A relay, its publishers and subscribers (SpecRelay, SpecRelayStore) *)

\* publish calls, subscribe calls, and other calls in one run
MaxPublish == 2
MaxSubscribe == 2
MaxRelayCalls == 3

\* an unsigned event of the tests
UnsignedEvent(pubkey, kind, tags, createdAt) ==
    [kind |-> kind, content |-> "hello", tags |-> tags,
     created_at |-> createdAt, pubkey |-> pubkey]

\* what is published to a relay that is only written to: events of the
\* replaceable kinds at both ends of their range, with and without a d tag,
\* of two pubkeys and two times, and events of the kinds next to the range
StoreEvents ==
    {UnsignedEvent(21, kind, tags, t) :
        kind \in {9999, 10000, 19999, 20000},
        tags \in {<<>>, << <<"d", "test">> >>}, t \in {1, 2}}
    \cup {UnsignedEvent(22, 10000, << <<"d", "test">> >>, 1),
          UnsignedEvent(21, 10000, << <<"d", "other">> >>, 1),
          UnsignedEvent(21, 10000, << <<"d">> >>, 1)}

\* what is published to a relay that has subscribers
BusEvents ==
    {UnsignedEvent(21, 1, <<>>, 1),
     UnsignedEvent(21, 10078, << <<"d", "test">> >>, 1),
     UnsignedEvent(22, 10078, << <<"d", "test">> >>, 1)}

\* the subscriptions made: a filter, and what the callback does with an
\* event of each kind
SubscribeChoices ==
    {[filter |-> [kinds |-> {1, 10078}],
      behaviour |-> (1 :> "returns" @@ 10078 :> "throws")],
     [filter |-> [kinds |-> {10078}, authors |-> {22}],
      behaviour |-> (10078 :> "throws invalid mac")]}

\* the last call: the function called, the event id given to deliver, for
\* an unsubscribe whether it had been called before, the number of callback
\* invocations the call made, what it returned and whether it threw
NoRelayCall ==
    [op |-> "none", arg |-> <<>>, again |-> FALSE, made |-> 0,
     returned |-> <<>>, threw |-> FALSE]

RelayInitState ==
    /\ relay = NewRelay
    /\ unsubs = <<>>
    /\ invocations = <<>>
    /\ pubs = {}
    /\ rcall = NoRelayCall
    /\ rcalls = 0
    /\ nextKeyId = 0
    /\ SessionIdle
    /\ InviteIdle
    /\ ListIdle
    /\ RecordIdle
    /\ StoreIdle
    /\ OfflineIdle
    /\ FromUserIdle

\* the callback invocations of a call as a bag, each with whether the
\* function that unsubscribes its subscription had been called
Invoked(made) ==
    LET inv(i) == made[i] @@ [unsubscribed |-> unsubs[made[i].onEvent].called]
    IN  [x \in {inv(i) : i \in 1..Len(made)} |->
            Cardinality({i \in 1..Len(made) : inv(i) = x})]

\* await relay.publish(event, secretKey), or relay.publish(signedEvent)
RelPublish(event, signed) ==
    /\ Cardinality(pubs) < MaxPublish
    /\ LET input    == IF signed THEN VerifiedOf(event, event.pubkey)
                       ELSE event
           verified == VerifiedOf(input, event.pubkey)
           p        == Publish(relay, verified)
       IN  /\ relay' = p.relay
           /\ pubs' = pubs \cup {verified}
           /\ invocations' = invocations (+) Invoked(p.calls)
           /\ rcall' = [NoRelayCall EXCEPT !.op = "publish",
                           !.made = Len(p.calls)]
    /\ UNCHANGED <<unsubs, rcalls, notRelay>>

\* relay.subscribe(filter, callback)
RelSubscribe(choice) ==
    /\ Len(unsubs) < MaxSubscribe
    /\ LET s == Subscribe(relay, choice.filter, Len(unsubs) + 1,
                          choice.behaviour)
       IN  /\ relay' = s.relay
           /\ unsubs' = Append(unsubs, [subId |-> s.relay.subscriptionCounter,
                                        called |-> FALSE])
           /\ invocations' = invocations (+) Invoked(s.calls)
           /\ rcall' = [NoRelayCall EXCEPT !.op = "subscribe",
                           !.made = Len(s.calls)]
    /\ UNCHANGED <<pubs, rcalls, notRelay>>

\* a call of the function the handle-th subscribe returned
RelUnsubscribe(handle) ==
    /\ rcalls < MaxRelayCalls
    /\ relay' = Unsubscribe(relay, unsubs[handle].subId)
    /\ unsubs' = [unsubs EXCEPT ![handle].called = TRUE]
    /\ rcall' = [NoRelayCall EXCEPT !.op = "unsubscribe",
                    !.again = unsubs[handle].called]
    /\ rcalls' = rcalls + 1
    /\ UNCHANGED <<invocations, pubs, notRelay>>

\* what a delivery call leaves: the subscribers, the invocations, and what
\* it returned, unless a callback's error was thrown on
Delivered(op, arg, d, returned) ==
    /\ rcalls < MaxRelayCalls
    /\ relay' = [relay EXCEPT !.subscribers = d.subscribers]
    /\ invocations' = invocations (+) Invoked(d.calls)
    /\ rcall' = [NoRelayCall EXCEPT !.op = op, !.arg = arg,
                    !.made = Len(d.calls),
                    !.returned = IF d.threw THEN <<>> ELSE <<returned>>,
                    !.threw = d.threw]
    /\ rcalls' = rcalls + 1
    /\ UNCHANGED <<unsubs, pubs, notRelay>>

RelDeliver(eventId) ==
    LET d == Deliver(relay, eventId) IN Delivered("deliver", <<eventId>>, d, d.count)

RelDeliverTo(eventId, subId) ==
    LET d == DeliverTo(relay, eventId, subId)
    IN  Delivered("deliverTo", <<>>, d, d.count > 0)

RelDeliverAll ==
    LET d == DeliverAll(relay) IN Delivered("deliverAll", <<>>, d, d.count)

RelDeliverByKind(kind) ==
    LET d == DeliverByKind(relay, kind)
    IN  Delivered("deliverByKind", <<>>, d, d.count)

RelDeliverByPubkey(pubkey) ==
    LET d == DeliverByPubkey(relay, pubkey)
    IN  Delivered("deliverByPubkey", <<>>, d, d.count)

\* relay.clear()
RelClear ==
    /\ rcalls < MaxRelayCalls
    /\ relay' = NewRelay
    /\ pubs' = {}
    /\ rcall' = [NoRelayCall EXCEPT !.op = "clear"]
    /\ rcalls' = rcalls + 1
    /\ UNCHANGED <<unsubs, invocations, notRelay>>

\* the ids of the stored events, and one of no stored event
StoredIds == {relay.events[i].id : i \in 1..Len(relay.events)}
UnknownId == <<0, 0, 0, <<>>, "">>

RelayNext ==
    \/ \E event \in BusEvents : \E signed \in BOOLEAN :
          RelPublish(event, signed)
    \/ \E choice \in SubscribeChoices : RelSubscribe(choice)
    \/ \E handle \in DOMAIN unsubs : RelUnsubscribe(handle)
    \/ \E eventId \in StoredIds \cup {UnknownId} : RelDeliver(eventId)
    \/ \E eventId \in StoredIds \cup {UnknownId} :
          \E subId \in 1..MaxSubscribe : RelDeliverTo(eventId, subId)
    \/ RelDeliverAll
    \/ \E kind \in {1, 10078} : RelDeliverByKind(kind)
    \/ \E pubkey \in {21, 22} : RelDeliverByPubkey(pubkey)
    \/ RelClear

SpecRelay == RelayInitState /\ [][RelayNext]_vars

RelayStoreNext ==
    \E event \in StoreEvents : \E signed \in BOOLEAN :
        RelPublish(event, signed)

SpecRelayStore == RelayInitState /\ [][RelayStoreNext]_vars

----------------------------------------------------------------------------
(* Claims about what the relay stores *)

\* two events of the same pubkey, kind and d tag, where events without a d
\* tag have the same (absent) d tag
SameTuple(a, b) ==
    a.pubkey = b.pubkey /\ a.kind = b.kind /\ DTag(a) = DTag(b)

\* the events the relay stores
Stored == {relay.events[i] : i \in 1..Len(relay.events)}

C22_NewestRetained ==
    \A e \in pubs :
        e.kind \in 10000..19999 =>
            \E s \in Stored : SameTuple(s, e) /\ s.created_at >= e.created_at

----------------------------------------------------------------------------
(* Claims about what the relay delivers *)

\* the callback invocations made so far
Invocations == BagToSet(invocations)

\* the functions that deliver
DeliverOps ==
    {"deliver", "deliverTo", "deliverAll", "deliverByKind", "deliverByPubkey"}

\* C23: publish and subscribe never invoke a subscriber callback, also when
\* the subscription is created after the event was published: a call that
\* invoked a callback is one of deliver, deliverTo, deliverAll,
\* deliverByKind and deliverByPubkey.
C23_OnlyDeliverInvokes ==
    /\ rcall.op \in {"publish", "subscribe"} => rcall.made = 0
    /\ rcall.made > 0 => rcall.op \in DeliverOps
    /\ rcall.op \in {"publish", "subscribe"} /\ rcalls = 0
          => invocations = EmptyBag

\* a publish or a subscribe has just left a stored event that matches the
\* filter of a subscription and was not handed to it
C23_Witness ==
    /\ rcall.op \in {"publish", "subscribe"}
    /\ \E i \in 1..Len(relay.subscribers) : \E e \in Stored :
          /\ e.kind \in relay.subscribers[i].filter.kinds
          /\ e.id \notin relay.subscribers[i].delivered
          /\ invocations = EmptyBag

\* C24: across any sequence of delivery calls the callback of a subscription
\* is invoked at most once per event id and only for events that match its
\* filter, and the count a deliver call returns is the number of
\* subscriptions that received the event in that call.
C24_OncePerEventAndMatching ==
    /\ \A x \in Invocations :
          /\ CopiesIn(x, invocations) = 1
          /\ \A y \in Invocations :
                x.onEvent = y.onEvent /\ x.event.id = y.event.id => x = y
          /\ "kinds" \in DOMAIN x.filter => x.event.kind \in x.filter.kinds
          /\ "authors" \in DOMAIN x.filter
                => x.event.pubkey \in x.filter.authors
    /\ rcall.op = "deliver" /\ ~rcall.threw
          => rcall.returned = <<rcall.made>>

\* deliver was called for an event that a subscription still listed had
\* received before, and returned 0
C24_Witness ==
    /\ rcall.op = "deliver"
    /\ rcall.returned = <<0>>
    /\ \E x \in Invocations :
          /\ x.event.id = rcall.arg[1]
          /\ \E i \in 1..Len(relay.subscribers) :
                relay.subscribers[i].onEvent = x.onEvent

\* what holds of the function subscribe returned once it has been called:
\* the callback is not invoked again and the subscription is not listed
C25_NotInvokedNotListed ==
    /\ \A x \in Invocations : ~x.unsubscribed
    /\ \A handle \in DOMAIN unsubs :
          unsubs[handle].called
              => \A i \in 1..Len(relay.subscribers) :
                    relay.subscribers[i].onEvent # handle

\* C25: after the function returned by subscribe has been called the
\* callback of that subscription is never invoked and the subscription is
\* not listed, and calling the function again changes nothing.
C25_UnsubscribeIdempotent ==
    [][/\ (\A x \in BagToSet(invocations') : ~x.unsubscribed)
       /\ rcall'.op = "unsubscribe" /\ rcall'.again => relay' = relay]_vars

\* the function a subscribe returned has been called a second time
C25_CalledAgain == rcall.op = "unsubscribe" /\ rcall.again

----------------------------------------------------------------------------
(* Invite.fromEvent and Invite.fromUser *)

INVITE_EVENT_KIND == "INVITE_EVENT_KIND"

\* tags.find(([key]) => key === name)?.[1], 0 for undefined
TagValue(tags, name) ==
    LET hits == {i \in 1..Len(tags) : tags[i][1] = name}
    IN  IF hits = {} THEN 0
        ELSE LET tag == tags[CHOOSE i \in hits : \A j \in hits : i <= j]
             IN  IF Len(tag) >= 2 THEN tag[2] ELSE 0

\* tags.find(([key]) => key === 'd')?.[1]?.split('/')?.[2], 0 for
\* undefined: the value of a d tag is a path, the sequence of its parts
DeviceIdOfTags(tags) ==
    LET hits == {i \in 1..Len(tags) : tags[i][1] = "d"}
    IN  IF hits = {} THEN 0
        ELSE LET tag == tags[CHOOSE i \in hits : \A j \in hits : i <= j]
             IN  IF Len(tag) >= 2 /\ Len(tag[2]) >= 3 THEN tag[2][3] ELSE 0

\* Invite.getEvent: the d tag is the path double-ratchet/invites/<deviceId>
InviteGetEvent(inv, createdAt) ==
    [kind |-> INVITE_EVENT_KIND, pubkey |-> inv.inviter, content |-> "",
     created_at |-> createdAt,
     tags |-> << <<"ephemeralKey", inv.inviterEphemeralPublicKey>>,
                 <<"sharedSecret", inv.sharedSecret>>,
                 <<"d", <<"double-ratchet", "invites", inv.deviceId>> >>,
                 <<"l", "double-ratchet/invites">> >>]

\* Invite.getDeletionEvent: the same without the l tag
InviteGetDeletionEvent(inv, now) ==
    [kind |-> INVITE_EVENT_KIND, pubkey |-> inv.inviter, content |-> "",
     created_at |-> now,
     tags |-> << <<"ephemeralKey", inv.inviterEphemeralPublicKey>>,
                 <<"sharedSecret", inv.sharedSecret>>,
                 <<"d", <<"double-ratchet", "invites", inv.deviceId>> >> >>]

\* finalizeEvent of an event that is published: id and signature
FinalizeWithId(event, key) ==
    LET e == [event EXCEPT !.pubkey = key]
    IN  e @@ [id |-> EventId(e), sig |-> key]

\* verifyEvent of an event that carries its id: the id is the hash of the
\* fields and the signature is that of the key the event names; an event
\* without tags has no hash to compare
VerifyEventWithId(event) ==
    /\ "tags" \in DOMAIN event
    /\ event.id = EventId(event)
    /\ VerifyEvent(event)

\* Invite.fromEvent: throws, or the invite without the private key
InviteFromEvent(event) ==
    IF event.sig = 0 THEN [ok |-> FALSE]
    ELSE IF ~VerifyEventWithId(event) THEN [ok |-> FALSE]
    ELSE IF "tags" \notin DOMAIN event THEN [ok |-> FALSE]
    ELSE IF TagValue(event.tags, "ephemeralKey") = 0
            \/ TagValue(event.tags, "sharedSecret") = 0
    THEN [ok |-> FALSE]
    ELSE [ok |-> TRUE,
          invite |->
            [inviterEphemeralPublicKey |->
                TagValue(event.tags, "ephemeralKey"),
             sharedSecret |-> TagValue(event.tags, "sharedSecret"),
             inviter |-> event.pubkey,
             inviterEphemeralPrivateKey |-> 0,
             deviceId |-> DeviceIdOfTags(event.tags),
             maxUses |-> 0, usedBy |-> <<>>]]

\* mutant of the callback of fromUser: seenIds is not consulted
FromUserCallback_NoSeenCheck(user, seen, event, onInvite) ==
    IF event.pubkey # user
    THEN [seenIds |-> seen, called |-> <<>>, threw |-> FALSE]
    ELSE [seenIds |-> seen \cup {event.id},
          called |-> IF InviteFromEvent(event).ok
                     THEN <<InviteFromEvent(event).invite>> ELSE <<>>,
          threw |-> FALSE]

\* the callback fromUser subscribes, for one event: seenIds after it, the
\* invite handed to onInvite if it was called, and whether an error left
\* the callback; onInvite is what the caller's function does, "returns" or
\* "throws", and the catch takes its error as it takes that of fromEvent
FromUserCallback(user, seen, event, onInvite) ==
    IF event.pubkey # user
    THEN [seenIds |-> seen, called |-> <<>>, threw |-> FALSE]
    ELSE IF event.id \in seen
    THEN [seenIds |-> seen, called |-> <<>>, threw |-> FALSE]
    ELSE [seenIds |-> seen \cup {event.id},
          called |-> IF InviteFromEvent(event).ok
                     THEN <<InviteFromEvent(event).invite>> ELSE <<>>,
          threw |-> FALSE]

----------------------------------------------------------------------------
(* Invite.fromUser and the events its callback gets (SpecFromUser) *)

\* events handed to the callback in one run
MaxFromUserEvents == 3

\* the user whose invites are asked for
FromUserUser == 10

\* the invite of the user's other device
OtherDeviceInvite == [InviterInvite(0) EXCEPT !.deviceId = 6]

\* what the callback may be handed: the user's invite event, that of
\* another device, the tombstone, an invite event of another user, the
\* user's invite event unsigned, with another key's signature, with an id
\* that is not its hash, without the ephemeralKey tag, without tags, and an
\* event of another kind that has the tags of an invite
FromUserEvents ==
    LET genuine == FinalizeWithId(InviteGetEvent(InviterInvite(0), 1), 10)
        bare    == [kind |-> INVITE_EVENT_KIND, pubkey |-> 10,
                    content |-> "", created_at |-> 1]
    IN  {genuine,
         FinalizeWithId(InviteGetEvent(OtherDeviceInvite, 1), 10),
         FinalizeWithId(InviteGetDeletionEvent(InviterInvite(0), 2), 10),
         FinalizeWithId(InviteGetEvent(InviterInvite(0), 1), 20),
         [genuine EXCEPT !.sig = 0],
         [genuine EXCEPT !.sig = 20],
         [genuine EXCEPT !.tags = Tail(@)],
         FinalizeWithId([InviteGetEvent(InviterInvite(0), 1) EXCEPT
                            !.tags = Tail(@)], 10),
         bare @@ [id |-> <<10, INVITE_EVENT_KIND, 1, <<>>, "">>, sig |-> 10],
         FinalizeWithId([InviteGetEvent(InviterInvite(0), 1) EXCEPT
                            !.kind = INVITE_RESPONSE_KIND], 10)}

\* before the first event
NoFromUserCall ==
    [n |-> 0, event |-> <<>>, seenBefore |-> FALSE, called |-> FALSE,
     threw |-> FALSE]

\* after Invite.fromUser(user, subscribe, onInvite)
FromUserInitState ==
    /\ seenIds = {}
    /\ onInviteCalls = <<>>
    /\ fuLast = NoFromUserCall
    /\ nextKeyId = 0
    /\ SessionIdle
    /\ InviteIdle
    /\ ListIdle
    /\ RecordIdle
    /\ StoreIdle
    /\ OfflineIdle
    /\ RelayIdle

\* the subscription hands an event to the callback
FromUserOnEvent(event, onInvite) ==
    /\ fuLast.n < MaxFromUserEvents
    /\ LET r == FromUserCallback(FromUserUser, seenIds, event, onInvite)
       IN  /\ seenIds' = r.seenIds
           /\ onInviteCalls' =
                onInviteCalls
                \o [i \in 1..Len(r.called) |->
                      [event |-> event, invite |-> r.called[i],
                       onInvite |-> onInvite]]
           /\ fuLast' = [n |-> fuLast.n + 1, event |-> event,
                         seenBefore |-> event.id \in seenIds,
                         called |-> r.called # <<>>, threw |-> r.threw]
    /\ UNCHANGED notFromUser

FromUserNext ==
    \E event \in FromUserEvents : \E onInvite \in {"returns", "throws"} :
        FromUserOnEvent(event, onInvite)

SpecFromUser == FromUserInitState /\ [][FromUserNext]_vars

\* C26: Invite.fromUser invokes onInvite at most once per event id and only
\* for validly signed invite events of the requested user; an event seen
\* before, an event of another pubkey and an event that Invite.fromEvent
\* rejects cause no onInvite call, and no event causes an error.
C26_OnInviteOncePerValidEvent ==
    /\ \A i, j \in 1..Len(onInviteCalls) :
          i # j => onInviteCalls[i].event.id # onInviteCalls[j].event.id
    /\ \A i \in 1..Len(onInviteCalls) :
          LET e == onInviteCalls[i].event
          IN  /\ e.pubkey = FromUserUser
              /\ e.sig = e.pubkey
              /\ e.id = <<e.pubkey, e.kind, e.created_at, e.tags, e.content>>
              /\ \E k \in 1..Len(e.tags) : e.tags[k][1] = "ephemeralKey"
              /\ \E k \in 1..Len(e.tags) : e.tags[k][1] = "sharedSecret"
    /\ fuLast.n > 0 =>
          /\ ~fuLast.threw
          /\ (\/ fuLast.seenBefore
              \/ fuLast.event.pubkey # FromUserUser
              \/ ~InviteFromEvent(fuLast.event).ok) => ~fuLast.called

\* an event that onInvite was called for is handed to the callback again
C26_Witness ==
    /\ fuLast.n > 0
    /\ fuLast.seenBefore
    /\ ~fuLast.called
    /\ \E i \in 1..Len(onInviteCalls) :
          onInviteCalls[i].event = fuLast.event

\* C40: an unsubscribe function removes only the subscription its subscribe
\* call created: a subscription that a call of an unsubscribe function
\* removes is one whose own unsubscribe function has been called.
C40_RemovesOnlyOwn ==
    [][rcall'.op = "unsubscribe" =>
          \A i \in 1..Len(relay.subscribers) :
              (\A j \in 1..Len(relay'.subscribers) :
                  relay'.subscribers[j].onEvent
                      # relay.subscribers[i].onEvent)
                  => unsubs'[relay.subscribers[i].onEvent].called]_vars

\* an unsubscribe function is called after a clear and a later subscribe
C40_CalledAfterClear ==
    /\ rcall.op = "unsubscribe"
    /\ \E h1, h2 \in DOMAIN unsubs :
          h1 < h2 /\ unsubs[h1].subId = unsubs[h2].subId /\ unsubs[h1].called

(***************************************************************************)
(* Rotation of a persisted device record (part_006:31-86)                  *)
(***************************************************************************)

\* the branch rotateSession(record, nextSession) takes: "install" without
\* an active session, "replace" for the same object or the same name,
\* "demote" otherwise
RotateBranch(rec, nextSession) ==
    IF rec.activeSession = <<>>
    THEN "install"
    ELSE LET current == rec.activeSession[1]
         IN  IF current.obj = nextSession.obj
                \/ current.name = nextSession.name
             THEN "replace"
             ELSE "demote"

\* C38: rotateSession applied to
\* deserializeDeviceRecord(serializeDeviceRecord(r)) takes the same branch
\* (install, replace in place, demote) as applied to r, for every next
\* session
C38_SameBranchAfterRoundTrip ==
    \A nextSession \in MockSessions :
        RotateBranch(DeserializeDeviceRecord(SerializeDeviceRecord(record)),
                     nextSession)
            = RotateBranch(record, nextSession)

----------------------------------------------------------------------------
(* InviteList.listen feeding rotateSession (SpecListenRotate)              *)

\* responses one invitee device publishes in one run
MaxListenAccept == 2
\* calls of the listen callback in one run
MaxListenDeliver == 3

\* the owner listens on device 5 of its list; onSession passes each session
\* to rotateSession on the record of the invitee's device
ListenRotateInitState ==
    /\ ivKind = "list"
    /\ invite = InviterInvite(0)
    /\ ilist = InviterList
    /\ listening = <<GetDevice(InviterList, 5)>>
    /\ envelopes = {}
    /\ accepts = {}
    /\ deliveries = <<>>
    /\ queue = <<>>
    /\ calls = <<>>
    /\ thrown = {}
    /\ nextKeyId = 20
    /\ record = CreateDeviceRecord("d1", 1)
    /\ rlast = <<>>
    /\ rotated = <<>>
    /\ SessionIdle
    /\ ListIdle
    /\ StoreIdle
    /\ OfflineIdle
    /\ RelayIdle
    /\ FromUserIdle

notListenRotate ==
    <<sessionVars, listVars, storeVars, offlineVars, busVars>>

\* the invitee device accepts once more and publishes the envelope
LsnAccept ==
    /\ Cardinality(accepts) < MaxListenAccept
    /\ LET r == InviteListAccept(ilist, 5, 11, 11, DeviceIdOf(11), nextKeyId,
                                 nextKeyId + 1, nextKeyId + 2)
       IN  /\ envelopes' = envelopes \cup {r.event}
           /\ accepts' = accepts \cup
                {[id |-> r.event.id, session |-> r.session,
                  invitee |-> 11, deviceId |-> DeviceIdOf(11)]}
    /\ nextKeyId' = nextKeyId + 3
    /\ UNCHANGED <<ivKind, invite, ilist, listening, deliveries, queue, calls,
                   thrown, recordVars, notListenRotate>>

\* somebody publishes a response under another shared secret
LsnForge ==
    /\ Cardinality(envelopes) = Cardinality(accepts)
    /\ envelopes' = envelopes \cup
         {EncryptInviteResponse(nextKeyId, 11, 11, 10, 1, 2, 0,
                                nextKeyId + 1)}
    /\ nextKeyId' = nextKeyId + 2
    /\ UNCHANGED <<ivKind, invite, ilist, listening, accepts, deliveries,
                   queue, calls, thrown, recordVars, notListenRotate>>

\* the bus calls the callback of InviteList.listen with an envelope, for the
\* first time or again; the callback of a call ends before that of a later
\* call, so each is taken as one step: decryptInviteResponse,
\* createSessionFromAccept with sessionName event.id, onSession, and
\* in onSession rotateSession(record, session) with the new Session object
LsnDeliver(e) ==
    /\ Len(deliveries) < MaxListenDeliver
    /\ LET d == Len(deliveries) + 1
           r == InviteListOnResponse(listening[1][1], 10, e, nextKeyId,
                                     nextKeyId + 1)
       IN  /\ deliveries' = Append(deliveries,
                [event |-> e,
                 status |-> IF r.onSession # <<>> THEN "done" ELSE "failed",
                 pushed |-> FALSE, threw |-> r.threw])
           /\ calls' = calls \o
                [i \in 1..Len(r.onSession) |-> [d |-> d] @@ r.onSession[i]]
           /\ IF r.onSession # <<>>
              THEN LET nextSession ==
                          SessionObject(d, r.onSession[1].session.name,
                                        StateOf(r.onSession[1].session))
                   IN  /\ record' = RotateSession(record, nextSession)
                       /\ rlast' = <<[before |-> record,
                                      next |-> nextSession]>>
                       /\ rotated' = Append(rotated, nextSession)
              ELSE UNCHANGED recordVars
    /\ UNCHANGED <<ivKind, invite, ilist, listening, envelopes, accepts,
                   queue, thrown, nextKeyId, notListenRotate>>

ListenRotateNext ==
    \/ LsnAccept
    \/ LsnForge
    \/ \E e \in envelopes : LsnDeliver(e)

SpecListenRotate == ListenRotateInitState /\ [][ListenRotateNext]_vars

\* the most recent call of the callback yielded a session from an envelope
\* that an earlier call had been given too
DuplicateDelivered ==
    /\ deliveries # <<>>
    /\ deliveries[Len(deliveries)].status = "done"
    /\ \E d \in 1..(Len(deliveries) - 1) :
          deliveries[d].event.id = deliveries[Len(deliveries)].event.id

\* the session onSession was given for the first call with the envelope of
\* the most recent call
FirstSessionOf(id) ==
    LET i == CHOOSE i \in 1..Len(calls) :
                /\ deliveries[calls[i].d].event.id = id
                /\ \A j \in 1..(i - 1) :
                      deliveries[calls[j].d].event.id # id
    IN  calls[i].session

\* C36 as stated: a re-delivered envelope yields a session with the name of
\* the first delivery's session (the envelope id), and rotateSession with
\* it leaves the record's inactiveSessions as they were
C36_DuplicateReplacesInPlace ==
    DuplicateDelivered =>
        /\ rlast[1].next.name = deliveries[Len(deliveries)].event.id
        /\ rlast[1].next.name
              = FirstSessionOf(deliveries[Len(deliveries)].event.id).name
        /\ record.inactiveSessions = rlast[1].before.inactiveSessions

\* C36, amended: a re-delivered envelope yields a session with the name of
\* the first delivery's session (the envelope id). While the session of
\* that envelope is still the active one, rotateSession replaces it in
\* place and inactiveSessions is unchanged; once a session of another
\* envelope is active, the duplicate demotes that session and it becomes
\* the only inactive one.
C36_DuplicateReplacesOwnSession ==
    DuplicateDelivered =>
        LET id == deliveries[Len(deliveries)].event.id
            before == rlast[1].before
        IN  /\ rlast[1].next.name = id
            /\ rlast[1].next.name = FirstSessionOf(id).name
            /\ record.activeSession = <<rlast[1].next>>
            /\ before.activeSession # <<>>
            /\ IF before.activeSession[1].name = id
               THEN record.inactiveSessions = before.inactiveSessions
               ELSE record.inactiveSessions = before.activeSession

\* a duplicate arrived while the session of its envelope was active and a
\* session of another envelope was inactive
C36_Witness ==
    /\ DuplicateDelivered
    /\ rlast[1].before.activeSession[1].name
          = deliveries[Len(deliveries)].event.id
    /\ rlast[1].before.inactiveSessions # <<>>
    /\ rlast[1].before.activeSession[1].obj # rlast[1].next.obj

----------------------------------------------------------------------------
(* The record a store holds while loads complete (UserRecordStore.ts:32-83) *)

\* C39: a record returned by getOrCreate(publicKey) stays the record the
\* store holds until delete(publicKey): a load that completes after the
\* record was created or changed (and not saved since) does not replace it
\* with the stored copy, so the store goes on holding the changed record
C39_LoadKeepsUnsavedRecord ==
    [][(/\ slast'.op = "load"
        /\ slast'.publicKey \in DOMAIN records
        /\ slast'.publicKey \in unsaved)
          => /\ slast'.publicKey \in DOMAIN records'
             /\ SameStoredUser(records[slast'.publicKey],
                               records'[slast'.publicKey])]_vars

\* a load has completed for a key whose record in memory had changed since
\* it was saved, over a storage holding the saved copy
C39_LoadOverChangedRecord ==
    /\ slast.op = "load"
    /\ slast.publicKey \in DOMAIN slast.records
    /\ StorageKey(slast.publicKey) \in DOMAIN slast.storage
    /\ ~SameStoredUser(slast.records[slast.publicKey],
                       DeserializeUserRecord(
                           slast.storage[StorageKey(slast.publicKey)]))

----------------------------------------------------------------------------
(* Further properties of InviteList.merge (part_005:254-297)               *)

\* C32: merge never loses the listening capability of a device: when a
\* deviceId is active in the merged list and listen would not throw for it
\* on one of the inputs (the entry there carries ephemeralPrivateKey),
\* listen does not throw for it on the merged list
C32_MergeKeepsPrivateKey ==
    \A l, m \in Replicas :
        LET merged == Merge(lists[l], lists[m])
        IN  \A id \in ActiveIds(merged) :
                (\/ ~InviteListListenThrows(lists[l], id)
                 \/ ~InviteListListenThrows(lists[m], id))
                    => ~InviteListListenThrows(merged, id)

\* a replica that built its list holds the private key of a device for
\* which another replica holds an entry read from an event
C32_LocalAndParsedEntry ==
    \E l, m \in Replicas : \E id \in DeviceIds :
        /\ built[l]
        /\ ~InviteListListenThrows(lists[l], id)
        /\ MapHas(lists[m].devices, id)
        /\ MapGet(lists[m].devices, id).ephemeralPrivateKey = 0

\* what a reader of a list sees of a device entry
ReaderEntry(device) ==
    [ephemeralPublicKey |-> device.ephemeralPublicKey,
     sharedSecret |-> device.sharedSecret,
     label |-> device.label]

\* the entries of the active devices as a reader sees them, by deviceId
ReaderEntries(list) ==
    {<<list.devices[i].deviceId, ReaderEntry(list.devices[i])>> :
        i \in 1..Len(list.devices)}

\* C33: a.merge(b) and b.merge(a) agree on everything a reader sees, lists
\* of equal createdAt included: the same entry for every active deviceId,
\* the same removed timestamps, the same mainDeviceId, version and
\* createdAt
C33_MergeCommutesForReaders ==
    \A l, m \in Replicas :
        LET ab == Merge(lists[l], lists[m])
            ba == Merge(lists[m], lists[l])
        IN  /\ ReaderEntries(ab) = ReaderEntries(ba)
            /\ RemovedEntries(ab) = RemovedEntries(ba)
            /\ ab.mainDeviceId = ba.mainDeviceId
            /\ ab.version = ba.version
            /\ ab.createdAt = ba.createdAt

\* two lists of equal createdAt hold entries for one id that a reader
\* tells apart
C33_TiedListsDiffer ==
    \E l, m \in Replicas : \E id \in DeviceIds :
        /\ lists[l].createdAt = lists[m].createdAt
        /\ MapHas(lists[l].devices, id) /\ MapHas(lists[m].devices, id)
        /\ ReaderEntry(MapGet(lists[l].devices, id))
              # ReaderEntry(MapGet(lists[m].devices, id))

\* the lists merge is applied to: those the replicas hold and a new list
\* of the owner
MergeInputs ==
    {lists[l] : l \in Replicas} \cup {Create(10, t) : t \in Times}

\* the input lists holding id as an active device
Holders(id, inputs) == {x \in inputs : MapHas(x.devices, id)}

\* C34: (a.merge(b)).merge(c) and a.merge(b.merge(c)) have the same active
\* device ids, the same removed ids and for each active deviceId the same
\* entry: that of the input with the greatest createdAt among those
\* holding the id
C34_MergeAssociates ==
    \A a, b, c \in MergeInputs :
        LET left == Merge(Merge(a, b), c)
            right == Merge(a, Merge(b, c))
        IN  /\ ActiveIds(left) = ActiveIds(right)
            /\ RemovedIds(left) = RemovedIds(right)
            /\ \A id \in ActiveIds(left) \cap ActiveIds(right) :
                  /\ MapGet(left.devices, id) = MapGet(right.devices, id)
                  /\ \E x \in Holders(id, {a, b, c}) :
                        /\ \A y \in Holders(id, {a, b, c}) :
                              y.createdAt <= x.createdAt
                        /\ MapGet(left.devices, id) = MapGet(x.devices, id)

\* an older and a newer list hold different entries for one id
C34_OlderAndNewerEntry ==
    \E l, m \in Replicas : \E id \in DeviceIds :
        /\ lists[l].createdAt < lists[m].createdAt
        /\ MapHas(lists[l].devices, id) /\ MapHas(lists[m].devices, id)
        /\ MapGet(lists[l].devices, id) # MapGet(lists[m].devices, id)
        /\ id \notin RemovedIds(lists[l]) \cup RemovedIds(lists[m])

----------------------------------------------------------------------------
(* Uses of an Invite and the sessions handed out (SpecInviteUses)          *)

\* an Invite with or without maxUses, on which listen has been called
InviteUsesInitState ==
    /\ ivKind = "invite"
    /\ invite \in {InviterInvite(0), InviterInvite(1)}
    /\ ilist = InviterList
    /\ thrown = {}
    /\ listening = <<NoDevice>>
    /\ envelopes = {}
    /\ accepts = {}
    /\ deliveries = <<>>
    /\ queue = <<>>
    /\ calls = <<>>
    /\ nextKeyId = 20
    /\ SessionIdle
    /\ ListIdle
    /\ RecordIdle
    /\ StoreIdle
    /\ OfflineIdle
    /\ RelayIdle
    /\ FromUserIdle

\* an invitee publishes a response that the inviter can open in all three
\* layers and whose payload has no sessionKey, as encryptInviteResponse
\* makes it when called without inviteeSessionPublicKey
UsesRespondWithoutKey(invitee) ==
    /\ Cardinality(envelopes) < MaxEnvelopes
    /\ envelopes' = envelopes \cup
         {EncryptInviteResponse(0, invitee, invitee, 10, 1, 1,
                                DeviceIdOf(invitee), nextKeyId)}
    /\ nextKeyId' = nextKeyId + 1
    /\ UNCHANGED <<ivKind, invite, ilist, listening, accepts, deliveries,
                   queue, calls, thrown, notInvite>>

InviteUsesNext ==
    \/ \E invitee \in Invitees : InvAccept(invitee)
    \/ \E invitee \in Invitees : UsesRespondWithoutKey(invitee)
    \/ \E e \in envelopes : InvDeliver(e)
    \/ InvResume

SpecInviteUses == InviteUsesInitState /\ [][InviteUsesNext]_vars

\* C35: in Invite.listen a use is consumed only by a response that yields a
\* session: once no callback is in flight, usedBy has as many entries as
\* onSession has had invocations
C35_UsesMatchSessions ==
    queue = <<>> => Len(invite.usedBy) = Len(calls)

\* a callback has run to its end for a response that opened and whose
\* payload had no sessionKey
C35_KeylessResponseHandled ==
    /\ queue = <<>>
    /\ \E d \in 1..Len(deliveries) :
          LET r == DecryptInviteResponse(deliveries[d].event, 1, 10, 1)
          IN  r.ok /\ r.sessionKey = 0 /\ deliveries[d].status = "failed"

=============================================================================
